---- MODULE Spec2Model ----
(***************************************************************************)
(* Model of fx_kline.core.ohlc_aggregator: the Series Normalizer, the      *)
(* indicator functions and the Structural Level Engine                     *)
(* (compute_support_resistance and its helpers).                           *)
(*                                                                         *)
(* Prices are integers counted in units of 0.00001 (one tenth of the       *)
(* fourth decimal), so that round(x, 4) is a real conversion: it maps a    *)
(* price to the nearest multiple of 10.  Timestamps are integers counted   *)
(* in hours from a Monday 00:00 UTC, so that the session date of a bar is  *)
(* ts \div 24 and its W-SUN week is ts \div 168.                           *)
(*                                                                         *)
(* A function of the source is one operator of the same name; where the    *)
(* source function is a sequence of statements, each statement is an       *)
(* operator that receives the values computed so far as arguments.         *)
(***************************************************************************)
EXTENDS Integers, Sequences, FiniteSets, TLC

(***************************************************************************)
(* Program constants                                                       *)
(***************************************************************************)
INTRADAY_LOOKBACK_BARS == 120
FOUR_HOUR_LOOKBACK_BARS == 60
DAILY_LOOKBACK_BARS == 60
INTRADAY_REVERSAL_HOURS == 5
DAILY_REVERSAL_CANDLES == 3
DEFAULT_LEVELS == 2
ATR_PERIOD == 14
RSI_PERIOD == 14
GUARDRAIL_ATR_MULTIPLE == 5
HoursPerDay == 24
HoursPerWeek == 168

\* A column check that forgets the close column
_EXPECTED_COLUMNS_WithoutClose == {"datetime", "open", "high", "low", "volume"}
\* _EXPECTED_COLUMNS of load_ohlc_csv
_EXPECTED_COLUMNS == {"datetime", "open", "high", "low", "close", "volume"}

(***************************************************************************)
(* Optional values: None is the empty tuple, Some(v) the one-tuple.        *)
(***************************************************************************)
None == << >>
Some(v) == << v >>
IsNone(x) == x = << >>
Val(x) == x[1]

Abs(x) == IF x < 0 THEN -x ELSE x
Max2(a, b) == IF a >= b THEN a ELSE b
Min2(a, b) == IF a <= b THEN a ELSE b
SetMin(S) == CHOOSE m \in S : \A x \in S : m <= x
SetMax(S) == -SetMin({-x : x \in S})
Range(s) == {s[i] : i \in 1..Len(s)}

\* s[:n] and s[-n:] of Python / DataFrame.head(n) and DataFrame.tail(n)
Head_(s, n) == SubSeq(s, 1, Min2(Max2(n, 0), Len(s)))
Tail_(s, n) == SubSeq(s, Max2(1, Len(s) - n + 1), Len(s))

\* The elements of s whose index is in idx, in their order in s; rank[i] is
\* the place of index i among idx.
PickRanked(s, idx, rank) ==
    [k \in 1..Cardinality(idx) |-> s[CHOOSE i \in idx : rank[i] = k]]
PickSet(s, idx) ==
    PickRanked(s, idx, [i \in idx |-> Cardinality({j \in idx : j <= i})])
\* The elements of s at the indices where keep is TRUE, in their order in s.
FilterIdx(s, keep) == PickSet(s, {i \in 1..Len(s) : keep[i]})

\* Python's sorted(items, key=...): a stable sort by a two-component key.
\* An item's place is one more than the number of items that sort before it.
KeyLess(a, b) == a[1] < b[1] \/ (a[1] = b[1] /\ a[2] < b[2])
PlaceAt(items, pos) ==
    [p \in 1..Len(items) |-> items[CHOOSE i \in 1..Len(items) : pos[i] = p]]
SortKeyed(items, keys) ==
    PlaceAt(items, [i \in 1..Len(items) |->
                1 + Cardinality({j \in 1..Len(items) :
                        \/ KeyLess(keys[j], keys[i])
                        \/ (keys[j] = keys[i] /\ j < i)})])

\* sorted(values) and sorted(values, reverse=True) on plain numbers
SortAsc(s) == SortKeyed(s, [i \in 1..Len(s) |-> <<s[i], 0>>])
SortDesc(s) == SortKeyed(s, [i \in 1..Len(s) |-> <<-s[i], 0>>])
\* sorted(candidates, key=price), and the same with reverse=True
ByPriceAsc(cands) == SortKeyed(cands, [i \in 1..Len(cands) |-> <<cands[i].price, 0>>])
ByPriceDesc(cands) == SortKeyed(cands, [i \in 1..Len(cands) |-> <<-cands[i].price, 0>>])
\* sorted(candidates, key=timestamp, reverse=True)
ByNewest(cands) == SortKeyed(cands, [i \in 1..Len(cands) |-> <<-cands[i].ts, 0>>])
Prices(cands) == [i \in 1..Len(cands) |-> cands[i].price]

\* round(x, 4): to the nearest multiple of 10 units, a tie going to the even
\* fourth decimal.
RoundTo(q, r2, step) ==
    IF r2 < step THEN 10 * q
    ELSE IF r2 > step THEN 10 * (q + 1)
    ELSE IF q % 2 = 0 THEN 10 * q ELSE 10 * (q + 1)
Round4(p) == RoundTo(p \div 10, 2 * (p % 10), 10)
\* round(num / den, 4) for a non-negative rational num / den given in units
RoundDiv4(num, den) ==
    RoundTo(num \div (10 * den), 2 * (num % (10 * den)), 10 * den)

\* sum(values), adding the two halves of the sequence
RECURSIVE SumSeq(_)
SumSeq(s) ==
    IF s = << >> THEN 0
    ELSE IF Len(s) = 1 THEN s[1]
    ELSE SumSeq(SubSeq(s, 1, Len(s) \div 2)) + SumSeq(SubSeq(s, Len(s) \div 2 + 1, Len(s)))

(***************************************************************************)
(* _rank_levels                                                            *)
(***************************************************************************)
\* (round(price, 4), ts) of every candidate
RoundCandidates(candidates) ==
    [i \in 1..Len(candidates) |->
        [price |-> Round4(candidates[i].price), ts |-> candidates[i].ts]]
\* deduplicate on the rounded price, the first occurrence wins
UniqueByPrice(rounded) ==
    FilterIdx(rounded, [i \in 1..Len(rounded) |->
        \A j \in 1..(i - 1) : rounded[j].price # rounded[i].price])
\* the candidates that respect min_price and max_price, where given
WithinPrices(cands, min_price, max_price) ==
    FilterIdx(cands, [i \in 1..Len(cands) |->
        /\ (IsNone(min_price) \/ cands[i].price >= Val(min_price))
        /\ (IsNone(max_price) \/ cands[i].price <= Val(max_price))])
\* if filtering removes all candidates, use the unfiltered top result
OrTopResult(filtered, unique) == IF filtered = << >> THEN Head_(unique, 1) ELSE filtered
\* No ranking: the candidates in the order they come in
RankCandidates_Unranked(filtered, last_close, mode) == filtered
\* ranked = sorted(filtered, key=...) in the mode's order
RankCandidates(filtered, last_close, mode) ==
    IF mode = "structure_first"
    THEN SortKeyed(filtered, [i \in 1..Len(filtered) |->
            <<filtered[i].ts, Abs(filtered[i].price - last_close)>>])
    ELSE SortKeyed(filtered, [i \in 1..Len(filtered) |->
            <<Abs(filtered[i].price - last_close), -filtered[i].ts>>])
\* A ranking that returns the levels in the order of selection
SortLevels_AsSelected(selected, sort_desc) == selected
SortLevels(selected, sort_desc) == IF sort_desc THEN SortDesc(selected) ELSE SortAsc(selected)

RankUnique(unique, last_close, max_levels, sort_desc, mode, min_price, max_price) ==
    SortLevels(
        Prices(Head_(RankCandidates(
                        OrTopResult(WithinPrices(unique, min_price, max_price), unique),
                        last_close, mode),
                     max_levels)),
        sort_desc)

_rank_levels(candidates, last_close, max_levels, sort_desc, mode, min_price, max_price) ==
    IF candidates = << >> THEN << >>
    ELSE RankUnique(UniqueByPrice(RoundCandidates(candidates)),
                    last_close, max_levels, sort_desc, mode, min_price, max_price)

(***************************************************************************)
(* _fallback_extremes: the N lowest lows and the N highest highs           *)
(***************************************************************************)
\* Series.nsmallest(n) / Series.nlargest(n): the n smallest (largest) values,
\* each bar counting once, smallest (largest) first
RECURSIVE NSmallest(_, _, _)
NSmallest(df, rows, n) ==
    IF n <= 0 \/ rows = {} THEN << >>
    ELSE <<SetMin({df[i].low : i \in rows})>>
         \o NSmallest(df, rows \ {SetMin({i \in rows : df[i].low = SetMin({df[j].low : j \in rows})})},
                      n - 1)

RECURSIVE NLargest(_, _, _)
NLargest(df, rows, n) ==
    IF n <= 0 \/ rows = {} THEN << >>
    ELSE <<SetMax({df[i].high : i \in rows})>>
         \o NLargest(df, rows \ {SetMin({i \in rows : df[i].high = SetMax({df[j].high : j \in rows})})},
                     n - 1)

RoundAll(values) == [i \in 1..Len(values) |-> Round4(values[i])]

\* The lowest lows as they are in the Series
FallbackSupports_Unrounded(df, levels) == SortAsc(NSmallest(df, 1..Len(df), levels))
FallbackSupports(df, levels) == SortAsc(RoundAll(NSmallest(df, 1..Len(df), levels)))
FallbackResistances(df, levels) == SortDesc(RoundAll(NLargest(df, 1..Len(df), levels)))

_fallback_extremes(df, levels) ==
    [supports |-> FallbackSupports(df, levels),
     resistances |-> FallbackResistances(df, levels)]

(***************************************************************************)
(* _merge_candidates_by_atr                                                *)
(***************************************************************************)
\* tolerance absent or <= 0: one entry per rounded price, in the order of the
\* first occurrence of each key; the entry keeps the more extreme raw price
\* and, at equal raw price, the newer timestamp.
SameKey(candidates, i) ==
    {j \in 1..Len(candidates) : Round4(candidates[j].price) = Round4(candidates[i].price)}
NewestAt(candidates, members, price) ==
    [price |-> price,
     ts |-> SetMax({candidates[j].ts : j \in {m \in members : candidates[m].price = price}})]
DedupeEntry(candidates, i, is_support) ==
    NewestAt(candidates, SameKey(candidates, i),
             IF is_support THEN SetMin({candidates[j].price : j \in SameKey(candidates, i)})
             ELSE SetMax({candidates[j].price : j \in SameKey(candidates, i)}))
FirstOfKey(candidates) ==
    FilterIdx([i \in 1..Len(candidates) |-> i], [i \in 1..Len(candidates) |->
        \A j \in 1..(i - 1) : Round4(candidates[j].price) # Round4(candidates[i].price)])
DedupeAt(candidates, firsts, is_support) ==
    [k \in 1..Len(firsts) |-> DedupeEntry(candidates, firsts[k], is_support)]
DedupeByRoundedPrice(candidates, is_support) ==
    IF is_support THEN ByPriceAsc(DedupeAt(candidates, FirstOfKey(candidates), TRUE))
    ELSE ByPriceDesc(DedupeAt(candidates, FirstOfKey(candidates), FALSE))

\* The clusters built by scanning the price-sorted candidates: a candidate
\* joins the first cluster that has a member closer than the tolerance.
NearClusters(clusters, c, tolerance) ==
    {k \in 1..Len(clusters) :
        \E m \in 1..Len(clusters[k]) : Abs(c.price - clusters[k][m].price) < tolerance}
PlaceInCluster(clusters, c, hits) ==
    IF hits = {} THEN Append(clusters, <<c>>)
    ELSE [clusters EXCEPT ![SetMin(hits)] = Append(clusters[SetMin(hits)], c)]
RECURSIVE BuildClusters(_, _, _, _)
BuildClusters(sorted, i, clusters, tolerance) ==
    IF i > Len(sorted) THEN clusters
    ELSE BuildClusters(sorted, i + 1,
            PlaceInCluster(clusters, sorted[i], NearClusters(clusters, sorted[i], tolerance)),
            tolerance)

\* max(cluster, key=...) that keeps the last of the members at the largest
\* distance
\* max(cluster, key=abs(price - global_mid)): the price of the first member
\* at the largest distance; mid2 is twice the global midpoint, far2 twice the
\* largest distance
FarthestFrom_LastMember(cluster, mid2, far2) ==
    cluster[SetMax({m \in 1..Len(cluster) : Abs(2 * cluster[m].price - mid2) = far2})].price
FarthestFrom(cluster, mid2, far2) ==
    cluster[SetMin({m \in 1..Len(cluster) : Abs(2 * cluster[m].price - mid2) = far2})].price

\* Among the members at the extreme price, the most recent
NewestOfPrice(cluster, extreme_price) ==
    ByNewest(FilterIdx(cluster, [m \in 1..Len(cluster) |->
                 cluster[m].price = extreme_price]))[1]
\* mid2 is twice the global midpoint (min + max) / 2 of all candidate prices
ClusterRepresentative(cluster, mid2, is_support) ==
    IF is_support
    THEN NewestOfPrice(cluster,
            FarthestFrom(cluster, mid2,
                SetMax({Abs(2 * cluster[m].price - mid2) : m \in 1..Len(cluster)})))
    ELSE NewestOfPrice(cluster, SetMax(Range(Prices(cluster))))
Representatives(clusters, mid2, is_support) ==
    [k \in 1..Len(clusters) |-> ClusterRepresentative(clusters[k], mid2, is_support)]
MergeClusters(candidates, tolerance, is_support) ==
    Representatives(BuildClusters(ByPriceAsc(candidates), 1, << >>, tolerance),
                    SetMin(Range(Prices(candidates))) + SetMax(Range(Prices(candidates))),
                    is_support)

_merge_candidates_by_atr(candidates, tolerance, is_support) ==
    IF candidates = << >> THEN << >>
    ELSE IF IsNone(tolerance) \/ Val(tolerance) <= 0
    THEN DedupeByRoundedPrice(candidates, is_support)
    ELSE IF is_support THEN ByPriceAsc(MergeClusters(candidates, Val(tolerance), TRUE))
    ELSE ByPriceDesc(MergeClusters(candidates, Val(tolerance), FALSE))

(***************************************************************************)
(* _fill_levels_from_candidates                                            *)
(***************************************************************************)
\* The loop over the candidates, most recent first: a candidate that respects
\* the price constraints and is at least the tolerance away from every level
\* so far is appended as it is
RECURSIVE FillLoop(_, _, _, _, _, _, _)
FillLoop(sorted, i, levels, tolerance, max_levels, min_price, max_price) ==
    IF i > Len(sorted) \/ Len(levels) >= max_levels THEN levels
    ELSE FillLoop(sorted, i + 1,
                  IF /\ (IsNone(min_price) \/ sorted[i].price >= Val(min_price))
                     /\ (IsNone(max_price) \/ sorted[i].price <= Val(max_price))
                     /\ \A k \in 1..Len(levels) :
                            Abs(sorted[i].price - levels[k]) >= tolerance
                  THEN Append(levels, sorted[i].price) ELSE levels,
                  tolerance, max_levels, min_price, max_price)

\* A fill-in that adds the most recent candidates within the price constraint
\* whatever their distance from the levels
_fill_levels_from_candidates_AnyDistance(current_levels, candidates, tolerance, max_levels, is_support, min_price, max_price) ==
    SortLevels(IF Len(current_levels) >= max_levels THEN current_levels
               ELSE current_levels
                    \o Prices(Head_(ByNewest(WithinPrices(candidates, min_price, max_price)),
                                    max_levels - Len(current_levels))),
               ~is_support)
_fill_levels_from_candidates(current_levels, candidates, tolerance, max_levels, is_support, min_price, max_price) ==
    SortLevels(IF Len(current_levels) >= max_levels THEN current_levels
               ELSE FillLoop(ByNewest(candidates), 1,
                             current_levels, tolerance, max_levels, min_price, max_price),
               ~is_support)

\* A detection without the simple-extremes fallback
OrFallback_FoundOnly(found, fallback) == found
\* result = found, each empty side replaced by the fallback's
OrFallback(found, fallback) ==
    [supports |-> IF found.supports = << >> THEN fallback.supports ELSE found.supports,
     resistances |-> IF found.resistances = << >> THEN fallback.resistances
                     ELSE found.resistances]

(***************************************************************************)
(* _compute_intraday_reversals (1h)                                        *)
(***************************************************************************)
SessionDate(ts) == ts \div HoursPerDay
WeekOf(ts) == ts \div HoursPerWeek

\* sorted(values.unique(), reverse=True) / sorted(values.unique())
SetToDesc(S) == [k \in 1..Cardinality(S) |->
                    CHOOSE d \in S : Cardinality({e \in S : e >= d}) = k]
SetToAsc(S) == [k \in 1..Cardinality(S) |->
                    CHOOSE d \in S : Cardinality({e \in S : e <= d}) = k]

\* The k smallest members of the index set idx, in increasing order
RECURSIVE TakeSmallest(_, _)
TakeSmallest(idx, k) ==
    IF k <= 0 \/ idx = {} THEN << >>
    ELSE <<SetMin(idx)>> \o TakeSmallest(idx \ {SetMin(idx)}, k - 1)

\* The bars after t of the session of t only
PostBars_SameSession(window, t) ==
    TakeSmallest({i \in 1..Len(window) :
                     window[i].ts > t /\ SessionDate(window[i].ts) = SessionDate(t)},
                 INTRADAY_REVERSAL_HOURS)
\* window[window[ts] > t].head(INTRADAY_REVERSAL_HOURS), as indices
PostBars(window, t) ==
    TakeSmallest({i \in 1..Len(window) : window[i].ts > t}, INTRADAY_REVERSAL_HOURS)

\* The bars of session d
Daily(window, d) == {i \in 1..Len(window) : SessionDate(window[i].ts) = d}
\* idxmin / idxmax: the first of the bars holding the lowest low (highest high)
SessionExtreme(window, bars, is_support) ==
    IF is_support
    THEN SetMin({i \in bars : window[i].low = SetMin({window[j].low : j \in bars})})
    ELSE SetMin({i \in bars : window[i].high = SetMax({window[j].high : j \in bars})})
\* The extreme at bar i was not revisited in the INTRADAY_REVERSAL_HOURS bars
\* after it (post)
Confirmed(window, i, post, is_support) ==
    /\ Len(post) >= INTRADAY_REVERSAL_HOURS
    /\ \A k \in 1..Len(post) :
            IF is_support THEN window[post[k]].low > window[i].low
            ELSE window[post[k]].high < window[i].high
\* The extreme bar of each session (dates lists the sessions), as an index
ExtremeIdx(window, dates, is_support) ==
    [k \in 1..Len(dates) |-> SessionExtreme(window, Daily(window, dates[k]), is_support)]
\* Those of the extreme bars that are confirmed reversals
ConfirmedIdx(window, at, is_support) ==
    FilterIdx(at, [k \in 1..Len(at) |->
        Confirmed(window, at[k], PostBars(window, window[at[k]].ts), is_support)])
CandidatesAt(window, at, is_support) ==
    [k \in 1..Len(at) |->
        [price |-> IF is_support THEN window[at[k]].low ELSE window[at[k]].high,
         ts |-> window[at[k]].ts]]
\* The confirmed session highs (is_support = FALSE) or lows (TRUE), the most
\* recent session first.
IntradayCandidates(window, is_support) ==
    CandidatesAt(window,
        ConfirmedIdx(window,
            ExtremeIdx(window,
                SetToDesc({SessionDate(window[i].ts) : i \in 1..Len(window)}), is_support),
            is_support),
        is_support)

\* max(last_close, max(supports)) when supports is non-empty, else last_close
MinResistancePrice(last_close, supports) ==
    IF supports = << >> THEN last_close ELSE Max2(last_close, SetMax(Range(supports)))

\* supports = _rank_levels(merged_supports, ..., max_price=last_close)
IntradayRankedSupports(support_candidates, levels, last_close, tolerance) ==
    _rank_levels(_merge_candidates_by_atr(support_candidates, Some(tolerance), TRUE),
                 last_close, levels, FALSE, "distance", None, Some(last_close))
\* resistances = _rank_levels(merged_resistances, ..., min_price=min_resistance_price)
IntradayRankedResistances(resistance_candidates, supports, levels, last_close, tolerance) ==
    _rank_levels(_merge_candidates_by_atr(resistance_candidates, Some(tolerance), FALSE),
                 last_close, levels, TRUE, "distance",
                 Some(MinResistancePrice(last_close, supports)), None)
\* the fill-in of the resistances, after the fill-in of the supports
IntradayFillResistances(resistances, resistance_candidates, supports, levels, last_close, tolerance) ==
    [supports |-> supports,
     resistances |-> _fill_levels_from_candidates(resistances, resistance_candidates,
                        tolerance, levels, FALSE,
                        Some(MinResistancePrice(last_close, supports)), None)]
\* if tolerance > 0: fill both sides
IntradayFill(supports, resistances, support_candidates, resistance_candidates, levels, last_close, tolerance) ==
    IF tolerance > 0
    THEN IntradayFillResistances(resistances, resistance_candidates,
            _fill_levels_from_candidates(supports, support_candidates, tolerance, levels,
                                         TRUE, None, Some(last_close)),
            levels, last_close, tolerance)
    ELSE [supports |-> supports, resistances |-> resistances]
IntradayRanked(supports, support_candidates, resistance_candidates, levels, last_close, tolerance) ==
    IntradayFill(supports,
                 IntradayRankedResistances(resistance_candidates, supports, levels,
                                           last_close, tolerance),
                 support_candidates, resistance_candidates, levels, last_close, tolerance)
IntradayFromCandidates(support_candidates, resistance_candidates, levels, last_close, tolerance) ==
    IntradayRanked(IntradayRankedSupports(support_candidates, levels, last_close, tolerance),
                   support_candidates, resistance_candidates, levels, last_close, tolerance)

\* The lookback of each interval-specific algorithm
Lookback(interval_key) ==
    IF interval_key = "1h" THEN INTRADAY_LOOKBACK_BARS
    ELSE IF interval_key = "4h" THEN FOUR_HOUR_LOOKBACK_BARS
    ELSE DAILY_LOOKBACK_BARS

\* The levels of the 1h algorithm before its final simple-extremes fallback.
IntradayLevels(window, levels, last_close, atr) ==
    IntradayFromCandidates(IntradayCandidates(window, TRUE), IntradayCandidates(window, FALSE),
                           levels, last_close, IF IsNone(atr) THEN 0 ELSE Val(atr))

_compute_intraday_reversals(df, levels, last_close, atr) ==
    OrFallback(IntradayLevels(Tail_(df, INTRADAY_LOOKBACK_BARS), levels, last_close, atr),
               _fallback_extremes(Tail_(df, INTRADAY_LOOKBACK_BARS), levels))

(***************************************************************************)
(* _compute_four_hour_levels (4h)                                          *)
(***************************************************************************)
\* The weekly aggregation: one row per W-SUN week of the window, oldest first
WeekBars(window, w) == {i \in 1..Len(window) : WeekOf(window[i].ts) = w}
WeekRow(window, bars) ==
    [week_high |-> SetMax({window[i].high : i \in bars}),
     week_low |-> SetMin({window[i].low : i \in bars}),
     week_end |-> SetMax({window[i].ts : i \in bars})]
WeekRowsOf(window, weeks) ==
    [k \in 1..Len(weeks) |-> WeekRow(window, WeekBars(window, weeks[k]))]
WeeklyRows(window) ==
    WeekRowsOf(window, SetToAsc({WeekOf(window[i].ts) : i \in 1..Len(window)}))

\* TRUE when the last week made a higher high or a lower low than the week before
Breakout(weekly) ==
    /\ Len(weekly) >= 2
    /\ \/ weekly[Len(weekly)].week_high > weekly[Len(weekly) - 1].week_high
       \/ weekly[Len(weekly)].week_low < weekly[Len(weekly) - 1].week_low

\* The previous and the last week's extremes
NecklineCandidates(weekly, is_support) ==
    [k \in 1..2 |->
        [price |-> IF is_support THEN weekly[Len(weekly) - 2 + k].week_low
                   ELSE weekly[Len(weekly) - 2 + k].week_high,
         ts |-> weekly[Len(weekly) - 2 + k].week_end]]
\* The simple extremes, stamped with the last bar's time
ExtremeCandidates(extremes, last_ts) ==
    [k \in 1..Len(extremes) |-> [price |-> extremes[k], ts |-> last_ts]]
CandidatesOfWeeks(window, weekly, levels, is_support) ==
    IF Breakout(weekly) THEN NecklineCandidates(weekly, is_support)
    ELSE ExtremeCandidates(IF is_support THEN FallbackSupports(window, levels)
                           ELSE FallbackResistances(window, levels),
                           window[Len(window)].ts)
FourHourCandidates(window, levels, is_support) ==
    CandidatesOfWeeks(window, WeeklyRows(window), levels, is_support)

FourHourRanked(supports, resistance_candidates, levels, last_close, tolerance) ==
    [supports |-> supports,
     resistances |-> _rank_levels(
                        _merge_candidates_by_atr(resistance_candidates, Some(tolerance), FALSE),
                        last_close, levels, TRUE, "structure_first",
                        Some(MinResistancePrice(last_close, supports)), None)]
FourHourFromCandidates(support_candidates, resistance_candidates, levels, last_close, tolerance) ==
    FourHourRanked(_rank_levels(
                        _merge_candidates_by_atr(support_candidates, Some(tolerance), TRUE),
                        last_close, levels, FALSE, "structure_first", None, None),
                   resistance_candidates, levels, last_close, tolerance)

\* The levels of the 4h algorithm before its final simple-extremes fallback.
FourHourLevels(window, levels, last_close, atr) ==
    FourHourFromCandidates(FourHourCandidates(window, levels, TRUE),
                           FourHourCandidates(window, levels, FALSE),
                           levels, last_close, IF IsNone(atr) THEN 0 ELSE Val(atr))

_compute_four_hour_levels(df, levels, last_close, atr) ==
    OrFallback(FourHourLevels(Tail_(df, FOUR_HOUR_LOOKBACK_BARS), levels, last_close, atr),
               _fallback_extremes(Tail_(df, FOUR_HOUR_LOOKBACK_BARS), levels))

(***************************************************************************)
(* _compute_daily_reversals (1d)                                           *)
(***************************************************************************)
\* A follow-through that counts the flat bars (close = open) as well
Reverses_AlsoFlat(window, idx, is_support) ==
    \A j \in (idx + 1)..(idx + DAILY_REVERSAL_CANDLES) :
        IF is_support THEN window[j].close >= window[j].open
        ELSE window[j].close <= window[j].open
\* The DAILY_REVERSAL_CANDLES bars after idx are all bullish (is_support) or
\* all bearish
Reverses(window, idx, is_support) ==
    \A j \in (idx + 1)..(idx + DAILY_REVERSAL_CANDLES) :
        IF is_support THEN window[j].close > window[j].open
        ELSE window[j].close < window[j].open
\* The bars followed by DAILY_REVERSAL_CANDLES bullish (supports) or bearish
\* (resistances) candles, oldest first
ReversalIdx(window, is_support) ==
    FilterIdx([i \in 1..Len(window) |-> i], [idx \in 1..Len(window) |->
        /\ idx <= Len(window) - DAILY_REVERSAL_CANDLES
        /\ Reverses(window, idx, is_support)])
\* No guardrail: every candidate is kept
Guardrail_Off(cands, last_close, atr) == cands
\* Drop the candidates farther than 5 x ATR from the last close
Guardrail(cands, last_close, atr) ==
    IF IsNone(atr) THEN cands
    ELSE FilterIdx(cands, [k \in 1..Len(cands) |->
            Abs(cands[k].price - last_close) <= GUARDRAIL_ATR_MULTIPLE * Val(atr)])
DailyCandidates(window, last_close, atr, is_support) ==
    Guardrail(CandidatesAt(window, ReversalIdx(window, is_support), is_support),
              last_close, atr)

\* The levels of the 1d algorithm before its simple-extremes fallback.
DailyLevels(window, levels, last_close, atr) ==
    [supports |-> _rank_levels(DailyCandidates(window, last_close, atr, TRUE),
                               last_close, levels, FALSE, "structure_first", None, None),
     resistances |-> _rank_levels(DailyCandidates(window, last_close, atr, FALSE),
                               last_close, levels, TRUE, "structure_first", None, None)]

_compute_daily_reversals(df, levels, last_close, atr) ==
    OrFallback(DailyLevels(Tail_(df, DAILY_LOOKBACK_BARS), levels, last_close, atr),
               _fallback_extremes(Tail_(df, DAILY_LOOKBACK_BARS), levels))

(***************************************************************************)
(* compute_atr                                                             *)
(***************************************************************************)
TrueRange(df, i) ==
    IF i = 1 THEN Abs(df[1].high - df[1].low)
    ELSE Max2(Abs(df[i].high - df[i].low),
              Max2(Abs(df[i].high - df[i - 1].close), Abs(df[i].low - df[i - 1].close)))

\* An ATR that is computed from a single bar as well
compute_atr_FromOneBar(df) ==
    IF df = << >> THEN None
    ELSE Some(RoundDiv4(
            SumSeq([k \in 1..Min2(ATR_PERIOD, Len(df)) |->
                        TrueRange(df, Len(df) - Min2(ATR_PERIOD, Len(df)) + k)]),
            Min2(ATR_PERIOD, Len(df))))
\* The mean of the last min(ATR_PERIOD, len) true ranges, rounded
compute_atr(df) ==
    IF Len(df) < 2 THEN None
    ELSE Some(RoundDiv4(
            SumSeq([k \in 1..Min2(ATR_PERIOD, Len(df)) |->
                        TrueRange(df, Len(df) - Min2(ATR_PERIOD, Len(df)) + k)]),
            Min2(ATR_PERIOD, Len(df))))

(***************************************************************************)
(* compute_support_resistance                                              *)
(***************************************************************************)
\* str.lower() on the interval identifiers and file suffixes the model uses
Lower(interval) ==
    CASE interval = "1H" -> "1h"
      [] interval = "4H" -> "4h"
      [] interval = "1D" -> "1d"
      [] interval = ".CSV" -> ".csv"
      [] OTHER -> interval

\* _get_time_column: the name of the time column, or absent (ValueError)
_get_time_column(columns) ==
    IF "datetime" \in columns THEN Some("datetime")
    ELSE IF "timestamp" \in columns THEN Some("timestamp")
    ELSE None

\* DataFrame.sort_values(ts_col): a stable sort by timestamp, which leaves a
\* frame that is already in time order as it is
sort_values(df) ==
    IF \A i \in 1..(Len(df) - 1) : df[i].ts <= df[i + 1].ts THEN df
    ELSE SortKeyed(df, [i \in 1..Len(df) |-> <<df[i].ts, 0>>])

\* The interval-specific algorithm
LevelsByInterval(working, interval_key, levels, last_close, atr_for_levels) ==
    IF interval_key = "1h"
    THEN _compute_intraday_reversals(working, levels, last_close, atr_for_levels)
    ELSE IF interval_key = "4h"
    THEN _compute_four_hour_levels(working, levels, last_close, atr_for_levels)
    ELSE IF interval_key = "1d"
    THEN _compute_daily_reversals(working, levels, last_close, atr_for_levels)
    ELSE _fallback_extremes(working, levels)

\* atr_for_levels = atr_value if atr_value is not None else compute_atr(working)
AtrForLevels(working, atr_value) ==
    IF IsNone(atr_value) THEN compute_atr(working) ELSE atr_value

\* The levels of a frame that is in time order and not empty
LevelsOfWorking(working, interval, levels, atr_value) ==
    OrFallback(LevelsByInterval(working, Lower(interval), levels,
                                working[Len(working)].close,
                                AtrForLevels(working, atr_value)),
               _fallback_extremes(working, levels))

compute_support_resistance(df, interval, levels, atr_value) ==
    IF df = << >> THEN [supports |-> << >>, resistances |-> << >>]
    ELSE LevelsOfWorking(sort_values(df), interval, levels, atr_value)

(***************************************************************************)
(* detect_trend, compute_rsi, compute_average_volatility                   *)
(***************************************************************************)
\* 1000 * _TREND_THRESHOLD
TREND_THRESHOLD_PER_MILLE == 2

\* rolling(window, min_periods): window = max(3, min(20, n)) and
\* min_periods = max(2, window // 2)
TrendWindow(n) == Max2(3, Min2(20, n))
\* min_periods = window // 2
TrendMinPeriods_HalfOnly(n) == TrendWindow(n) \div 2
TrendMinPeriods(n) == Max2(2, TrendWindow(n) \div 2)

\* The sign of blended - threshold (up = TRUE) or of -threshold - blended, where
\*     blended = 0.6 * (end - start) / start + 0.4 * a / b
\* and a / b is the slope ratio: 500 * blended = num / den with
\*     num = 300 * (end - start) * b + 200 * a * start,  den = start * b.
Beyond(num, den, up) ==
    IF den > 0
    THEN (IF up THEN num > den * (TREND_THRESHOLD_PER_MILLE \div 2)
          ELSE num < -(den * (TREND_THRESHOLD_PER_MILLE \div 2)))
    ELSE (IF up THEN num < den * (TREND_THRESHOLD_PER_MILLE \div 2)
          ELSE num > -(den * (TREND_THRESHOLD_PER_MILLE \div 2)))
Blend(start, end, a, b) ==
    IF Beyond(300 * (end - start) * b + 200 * a * start, start * b, TRUE) THEN "UP"
    ELSE IF Beyond(300 * (end - start) * b + 200 * a * start, start * b, FALSE) THEN "DOWN"
    ELSE "SIDEWAYS"
\* s1 / k1 and s2 / k2 are the first and the last valid rolling mean; valid is
\* the number of valid rolling means
Slope(start, end, s1, k1, s2, k2, valid) ==
    IF valid >= 2 /\ s1 # 0 THEN Blend(start, end, s2 * k1 - s1 * k2, s1 * k2)
    ELSE Blend(start, end, 0, 1)

detect_trend(closes) ==
    IF Len(closes) < 2 THEN "SIDEWAYS"
    ELSE IF closes[1] = 0 THEN "SIDEWAYS"
    ELSE Slope(closes[1], closes[Len(closes)],
               SumSeq(SubSeq(closes, 1, TrendMinPeriods(Len(closes)))),
               TrendMinPeriods(Len(closes)),
               SumSeq(Tail_(closes, TrendWindow(Len(closes)))),
               Min2(TrendWindow(Len(closes)), Len(closes)),
               Len(closes) - TrendMinPeriods(Len(closes)) + 1)

\* The smoothed averages of compute_rsi are carried in fixed point: a weight
\* (1 - 1/RSI_PERIOD)^j is a whole number of 1/WilderScale, rounded up (in
\* floating point a weight is never zero on the Series of the model).
WilderScale == 20000
RECURSIVE Decay(_)
Decay(j) ==
    IF j = 0 THEN WilderScale
    ELSE IF j % 2 = 0
    THEN (Decay(j \div 2) * Decay(j \div 2) + WilderScale - 1) \div WilderScale
    ELSE (Decay(j - 1) * (RSI_PERIOD - 1) + RSI_PERIOD - 1) \div RSI_PERIOD
\* delta.clip(lower=0) and -delta.clip(upper=0), without the leading NaN
Gains(closes) == [i \in 1..(Len(closes) - 1) |-> Max2(closes[i + 1] - closes[i], 0)]
Losses(closes) == [i \in 1..(Len(closes) - 1) |-> Max2(closes[i] - closes[i + 1], 0)]
\* ewm(alpha=1/RSI_PERIOD, adjust=False).mean() at the last index, times
\* RSI_PERIOD * WilderScale: y1 = x1, y(t) = (1 - alpha) * y(t-1) + alpha * x(t)
Wilder(xs) ==
    RSI_PERIOD * Decay(Len(xs) - 1) * xs[1]
    + SumSeq([k \in 1..(Len(xs) - 1) |-> Decay(Len(xs) - 1 - k) * xs[k + 1]])
\* round(x, 2) of x = (whole + rest / den) hundredths
RoundHundredths(whole, rest, den) == IF 2 * rest >= den THEN whole + 1 ELSE whole
\* 100 + 100 / (1 + rs)
RsiValue_Added(avg_gain, avg_loss) ==
    20000 - RoundHundredths(
        100 * ((100 * avg_gain) \div (avg_gain + avg_loss))
            + (100 * ((100 * avg_gain) % (avg_gain + avg_loss))) \div (avg_gain + avg_loss),
        (100 * ((100 * avg_gain) % (avg_gain + avg_loss))) % (avg_gain + avg_loss),
        avg_gain + avg_loss)
\* round(100 - 100 / (1 + rs), 2) with rs = avg_gain / avg_loss, in hundredths:
\* 100 * avg_gain / (avg_gain + avg_loss)
RsiValue(avg_gain, avg_loss) ==
    RoundHundredths(
        100 * ((100 * avg_gain) \div (avg_gain + avg_loss))
            + (100 * ((100 * avg_gain) % (avg_gain + avg_loss))) \div (avg_gain + avg_loss),
        (100 * ((100 * avg_gain) % (avg_gain + avg_loss))) % (avg_gain + avg_loss),
        avg_gain + avg_loss)
\* compute_rsi.  The result is absent or a record: value is the RSI in
\* hundredths; gain and loss tell whether the latest smoothed gain and loss
\* are present and positive.  The smoothed series is valid from RSI_PERIOD
\* price changes on, and a Wilder average is positive once one change was.
RsiOf(gain, loss, avg_gain, avg_loss) ==
    [gain |-> gain, loss |-> loss,
     value |-> IF gain /\ ~loss THEN 10000
               ELSE IF loss /\ ~gain THEN 0
               ELSE IF ~gain /\ ~loss THEN 5000
               ELSE RsiValue(avg_gain, avg_loss)]
\* compute_rsi with smoothed averages that are valid from the first change
compute_rsi_NoMinPeriods(closes) ==
    IF Len(closes) < 2 THEN None
    ELSE Some(RsiOf(\E i \in 2..Len(closes) : closes[i] > closes[i - 1],
                    \E i \in 2..Len(closes) : closes[i] < closes[i - 1],
                    Wilder(Gains(closes)), Wilder(Losses(closes))))
compute_rsi(closes) ==
    IF Len(closes) < 2 THEN None
    ELSE IF Len(closes) - 1 < RSI_PERIOD THEN Some(RsiOf(FALSE, FALSE, 0, 0))
    ELSE Some(RsiOf(\E i \in 2..Len(closes) : closes[i] > closes[i - 1],
                    \E i \in 2..Len(closes) : closes[i] < closes[i - 1],
                    Wilder(Gains(closes)), Wilder(Losses(closes))))

compute_average_volatility(df) ==
    IF df = << >> THEN None
    ELSE Some(RoundDiv4(SumSeq([i \in 1..Len(df) |-> df[i].high - df[i].low]), Len(df)))

(***************************************************************************)
(* compute_sma_features: the latest values                                 *)
(***************************************************************************)
SMA_PERIODS == {5, 13, 21}
EMA_PERIODS == {25, 75, 90, 200}

\* "latest" of each SMA period: the rounded mean of the last `period` closes,
\* absent while fewer closes exist
SmaLatest(closes) ==
    [period \in SMA_PERIODS |->
        IF Len(closes) < period THEN None
        ELSE Some(RoundDiv4(SumSeq(Tail_(closes, period)), period))]

(***************************************************************************)
(* compute_ema_features: the reaction of the price to each EMA             *)
(***************************************************************************)
\* EMA_REACTION_WINDOWS.get(interval.lower(), len(df))
EMA_REACTION_WINDOWS(interval_key, rows) ==
    IF interval_key = "1h" THEN 120
    ELSE IF interval_key \in {"4h", "1d"} THEN 60
    ELSE rows

\* An EMA value is carried in fixed point, as a whole number of 1/EmaScale of
\* a price unit, each step rounded to the nearest
EmaScale == 1000000
\* y(t) = (1 - alpha) * y(t-1) + alpha * x(t) with alpha = 2 / (span + 1)
EmaStep(e, x, period) ==
    e + (4 * (x * EmaScale - e) + period + 1) \div (2 * (period + 1))
\* The EMA after each value of xs, from the EMA e before them
RECURSIVE EmaSeq(_, _, _)
EmaJoin(left, rest, period) == left \o EmaSeq(left[Len(left)], rest, period)
EmaSeq(e, xs, period) ==
    IF xs = << >> THEN << >>
    ELSE IF Len(xs) = 1 THEN <<EmaStep(e, xs[1], period)>>
    ELSE EmaJoin(EmaSeq(e, SubSeq(xs, 1, Len(xs) \div 2), period),
                 SubSeq(xs, Len(xs) \div 2 + 1, Len(xs)), period)
\* The values with no EMA yet (NaN): the first period - 1 of them
MinPeriods(values, period) ==
    [t \in 1..Len(values) |-> IF t < period THEN None ELSE Some(values[t])]
\* closes.ewm(span=period, adjust=False, min_periods=period).mean()
ewm(closes, period) ==
    IF closes = << >> THEN << >>
    ELSE MinPeriods(<<closes[1] * EmaScale>>
                        \o EmaSeq(closes[1] * EmaScale, Tail(closes), period),
                    period)

\* price < ema and price > ema; a comparison with NaN is False
BelowEma(price, e) == ~IsNone(e) /\ price * EmaScale < Val(e)
AboveEma(price, e) == ~IsNone(e) /\ price * EmaScale > Val(e)

\* A follow-through that asks nothing of the closes after idx
_support_follow_through_None(idx, closes, ema_vals) == TRUE
\* _support_follow_through: idx counts from 1
_support_follow_through(idx, closes, ema_vals) ==
    /\ \A j \in idx..Min2(idx + 2, Len(closes)) : ~BelowEma(closes[j], ema_vals[j])
    /\ IF idx + 2 <= Len(closes) THEN closes[idx + 2] > closes[idx]
       ELSE IF idx + 1 <= Len(closes) THEN closes[idx + 1] > closes[idx]
       ELSE TRUE
_resistance_follow_through(idx, closes, ema_vals) ==
    /\ \A j \in idx..Min2(idx + 2, Len(closes)) : ~AboveEma(closes[j], ema_vals[j])
    /\ IF idx + 2 <= Len(closes) THEN closes[idx + 2] < closes[idx]
       ELSE IF idx + 1 <= Len(closes) THEN closes[idx + 1] < closes[idx]
       ELSE TRUE

\* The bars of the window that show each pattern
SupportIdx(window_df, closes, ema_vals) ==
    {idx \in 1..Len(window_df) :
        /\ BelowEma(window_df[idx].low, ema_vals[idx])
        /\ AboveEma(window_df[idx].close, ema_vals[idx])
        /\ _support_follow_through(idx, closes, ema_vals)}
ResistanceIdx(window_df, closes, ema_vals) ==
    {idx \in 1..Len(window_df) :
        /\ AboveEma(window_df[idx].high, ema_vals[idx])
        /\ BelowEma(window_df[idx].close, ema_vals[idx])
        /\ _resistance_follow_through(idx, closes, ema_vals)}
\* A selection that reports the support event whenever there is one
ReactionOf_SupportFirst(n, support_idx, resistance_idx) ==
    IF support_idx # {}
    THEN [reaction |-> "support_bounce", reaction_bars_ago |-> Some(n - SetMax(support_idx))]
    ELSE IF resistance_idx # {}
    THEN [reaction |-> "resistance_reject", reaction_bars_ago |-> Some(n - SetMax(resistance_idx))]
    ELSE [reaction |-> "none", reaction_bars_ago |-> None]
\* The scan from the last bar back keeps the latest bar of each pattern, and
\* the one with fewer bars ago is reported
ReactionOf(n, support_idx, resistance_idx) ==
    IF support_idx # {} /\ resistance_idx # {}
    THEN (IF n - SetMax(support_idx) <= n - SetMax(resistance_idx)
          THEN [reaction |-> "support_bounce", reaction_bars_ago |-> Some(n - SetMax(support_idx))]
          ELSE [reaction |-> "resistance_reject",
                reaction_bars_ago |-> Some(n - SetMax(resistance_idx))])
    ELSE IF support_idx # {}
    THEN [reaction |-> "support_bounce", reaction_bars_ago |-> Some(n - SetMax(support_idx))]
    ELSE IF resistance_idx # {}
    THEN [reaction |-> "resistance_reject", reaction_bars_ago |-> Some(n - SetMax(resistance_idx))]
    ELSE [reaction |-> "none", reaction_bars_ago |-> None]
DetectInWindow(window_df, closes, ema_vals) ==
    ReactionOf(Len(window_df), SupportIdx(window_df, closes, ema_vals),
               ResistanceIdx(window_df, closes, ema_vals))
_detect_single_ema_reaction(df, ema_series, reaction_window) ==
    IF Tail_(df, reaction_window) = << >> \/ ema_series = << >>
    THEN [reaction |-> "none", reaction_bars_ago |-> None]
    ELSE DetectInWindow(Tail_(df, reaction_window),
                        [i \in 1..Len(Tail_(df, reaction_window)) |->
                            Tail_(df, reaction_window)[i].close],
                        Tail_(ema_series, Len(Tail_(df, reaction_window))))

\* One entry of the features: whether "latest" is present, and the reaction
EmaEntry(ema_series, detected) ==
    [latest_present |-> \E t \in 1..Len(ema_series) : ~IsNone(ema_series[t]),
     reaction |-> detected.reaction,
     reaction_bars_ago |-> detected.reaction_bars_ago]
EmaFeature(df, ema_series, reaction_window) ==
    EmaEntry(ema_series, _detect_single_ema_reaction(df, ema_series, reaction_window))
compute_ema_features(df, interval) ==
    [period \in EMA_PERIODS |->
        EmaFeature(df, ewm([i \in 1..Len(df) |-> df[i].close], period),
                   EMA_REACTION_WINDOWS(Lower(interval), Len(df)))]

(***************************************************************************)
(* analyze_dataframe                                                       *)
(***************************************************************************)
Closes(df) == [i \in 1..Len(df) |-> df[i].close]

\* get_jst_now().isoformat(): the clock is read once per analysis
get_jst_now == "2024-01-02T09:00:00+09:00"

\* An AnalysisResult without the timeframe field
AnalysisResult_DataModel(pair, interval, period, trend, sr, rsi, atr, average_volatility, sma, ema) ==
    [pair |-> pair, interval |-> interval, period |-> period, trend |-> trend,
     support_levels |-> sr.supports, resistance_levels |-> sr.resistances,
     rsi |-> rsi, atr |-> atr, average_volatility |-> average_volatility,
     generated_at |-> get_jst_now, sma |-> sma, ema |-> ema, schema_version |-> 2]
\* The dataclass as analyze_dataframe fills it: timeframe = interval, and
\* schema_version keeps its default
AnalysisResult(pair, interval, period, trend, sr, rsi, atr, average_volatility, sma, ema) ==
    [pair |-> pair, interval |-> interval, period |-> period, trend |-> trend,
     support_levels |-> sr.supports, resistance_levels |-> sr.resistances,
     rsi |-> rsi, atr |-> atr, average_volatility |-> average_volatility,
     generated_at |-> get_jst_now, sma |-> sma, ema |-> ema,
     timeframe |-> Some(interval), schema_version |-> 2]
\* AnalysisResult.to_dict: asdict, with an absent or empty timeframe replaced
\* by the interval
to_dict(analysis) ==
    [analysis EXCEPT !.timeframe = IF IsNone(@) \/ @ = Some("") THEN Some(analysis.interval)
                                   ELSE @]

\* The frame has the rows df and the columns `columns`.  The steps run in the
\* order of the source, and the first that fails decides the outcome: reading a
\* column the frame lacks raises KeyError (detect_trend reads close; compute_atr
\* reads high and low once there are two rows; compute_support_resistance reads
\* them after _get_time_column), and _get_time_column raises ValueError.
analyze_dataframe(df, columns, pair, interval, period) ==
    IF "close" \notin columns
    THEN [outcome |-> "KeyError", result |-> None]
    ELSE IF Len(df) >= 2 /\ ~({"high", "low"} \subseteq columns)
    THEN [outcome |-> "KeyError", result |-> None]
    ELSE IF IsNone(_get_time_column(columns))
    THEN [outcome |-> "ValueError: no time column", result |-> None]
    ELSE IF ~({"high", "low"} \subseteq columns)
    THEN [outcome |-> "KeyError", result |-> None]
    ELSE [outcome |-> "returned",
          result |-> Some(AnalysisResult(pair, interval, period, detect_trend(Closes(df)),
                            compute_support_resistance(df, interval, DEFAULT_LEVELS,
                                                       compute_atr(df)),
                            compute_rsi(Closes(df)), compute_atr(df),
                            compute_average_volatility(df),
                            SmaLatest(Closes(df)), compute_ema_features(df, interval)))]

(***************************************************************************)
(* parse_metadata_from_filename, load_ohlc_csv, analyze_file               *)
(***************************************************************************)
\* The file stems the model uses, and what _FILENAME_PATTERN makes of them
FileStems == {"USDJPY_1h_10d", "eurusd_1d_1y", "notes"}
parse_metadata_from_filename(stem) ==
    CASE stem = "USDJPY_1h_10d" -> Some([pair |-> "USDJPY", interval |-> "1h", period |-> "10d"])
      [] stem = "eurusd_1d_1y" -> Some([pair |-> "EURUSD", interval |-> "1d", period |-> "1y"])
      [] OTHER -> None

\* str(col).strip().lower() on the column names the model uses
NormalizeName(col) ==
    CASE col = "Datetime" -> "datetime"
      [] col = " Open" -> "open"
      [] col = "High" -> "high"
      [] col = "Low" -> "low"
      [] col = "Close " -> "close"
      [] col = "Volume" -> "volume"
      [] OTHER -> col
_normalize_columns(header) == {NormalizeName(col) : col \in header}

\* A CSV row: each cell is Some(value), or None when it does not parse
\* (to_datetime / to_numeric with errors="coerce" give NaT / NaN)
Row(bar, date_ok, close_ok) ==
    [datetime |-> IF date_ok THEN Some(bar.ts) ELSE None,
     open |-> Some(bar.open), high |-> Some(bar.high), low |-> Some(bar.low),
     close |-> IF close_ok THEN Some(bar.close) ELSE None]

\* dropna(subset=["datetime"]) and dropna(subset=["open", "high", "low", "close"])
DropNa(rows) ==
    FilterIdx(rows, [i \in 1..Len(rows) |->
        /\ ~IsNone(rows[i].datetime)
        /\ ~IsNone(rows[i].open) /\ ~IsNone(rows[i].high)
        /\ ~IsNone(rows[i].low) /\ ~IsNone(rows[i].close)])
BarsOf(kept) ==
    [i \in 1..Len(kept) |->
        [ts |-> Val(kept[i].datetime), open |-> Val(kept[i].open),
         high |-> Val(kept[i].high), low |-> Val(kept[i].low),
         close |-> Val(kept[i].close)]]

\* load_ohlc_csv: absent (ValueError) when columns are missing, else the rows
\* whose datetime and prices parse, in time order
load_ohlc_csv(header, rows) ==
    IF _EXPECTED_COLUMNS \ _normalize_columns(header) # {} THEN None
    ELSE Some(sort_values(BarsOf(DropNa(rows))))

\* An analyze_file that hands an empty frame on to analyze_dataframe
AnalyzeLoaded_EmptyAnalysed(meta, df, columns) ==
    IF IsNone(meta)
    THEN [outcome |-> "ValueError: filename", result |-> None,
          entered |-> <<"parse_metadata_from_filename">>]
    ELSE IF IsNone(df)
    THEN [outcome |-> "ValueError: missing columns", result |-> None,
          entered |-> <<"parse_metadata_from_filename", "load_ohlc_csv">>]
    ELSE [outcome |-> analyze_dataframe(Val(df), columns, Val(meta).pair, Val(meta).interval,
                                      Val(meta).period).outcome,
          result |-> analyze_dataframe(Val(df), columns, Val(meta).pair, Val(meta).interval,
                                      Val(meta).period).result,
          entered |-> <<"parse_metadata_from_filename", "load_ohlc_csv",
                        "analyze_dataframe">>]
\* analyze_file once the metadata and the frame are there
AnalyzeLoaded(meta, df, columns) ==
    IF IsNone(meta)
    THEN [outcome |-> "ValueError: filename", result |-> None,
          entered |-> <<"parse_metadata_from_filename">>]
    ELSE IF IsNone(df)
    THEN [outcome |-> "ValueError: missing columns", result |-> None,
          entered |-> <<"parse_metadata_from_filename", "load_ohlc_csv">>]
    ELSE IF Val(df) = << >>
    THEN [outcome |-> "ValueError: no data rows", result |-> None,
          entered |-> <<"parse_metadata_from_filename", "load_ohlc_csv">>]
    ELSE [outcome |-> analyze_dataframe(Val(df), columns, Val(meta).pair, Val(meta).interval,
                                      Val(meta).period).outcome,
          result |-> analyze_dataframe(Val(df), columns, Val(meta).pair, Val(meta).interval,
                                      Val(meta).period).result,
          entered |-> <<"parse_metadata_from_filename", "load_ohlc_csv",
                        "analyze_dataframe">>]

\* analyze_file: the outcome, the result, and the functions it entered
analyze_file(stem, header, rows) ==
    AnalyzeLoaded(parse_metadata_from_filename(stem), load_ohlc_csv(header, rows),
                  _normalize_columns(header))

(***************************************************************************)
(* The Series under construction and the calls made on it                  *)
(***************************************************************************)
VARIABLES
    series,     \* the bars of the Series, oldest first
    steps,      \* how many times the Series was extended
    call,       \* the operation applied and its arguments, op "none" before it
    outcome,    \* "none", "returned" or the exception raised
    result,     \* the value returned, None before the call or on an exception
    entered,    \* the functions analyze_file entered, in order
    input_files,\* main: the input files collected, in the order of the loop
    position,   \* main: 0 before the run, then the index of the next file
    written,    \* main: the counter of analyses written
    outputs,    \* main: the analyses written to the output directory, in order
    log,        \* main: what the logger recorded for each file, in order
    exit_code   \* main: the exit code, None while main runs

cli == <<input_files, position, written, outputs, log, exit_code>>
vars == <<series, steps, call, outcome, result, entered,
          input_files, position, written, outputs, log, exit_code>>

\* Bounds of the model
MaxSteps == 4
MaxRows == 125
MaxLevels == 2

\* One price step of a bar's body: the fourth decimal
Tick == 10
\* The first open: on the fourth decimal, and off it
StartPrices == {110, 114}
\* Sunday 22:00: an hour later the session is the same, two hours later a new
\* session and a new week begin
StartTs == 6 * HoursPerDay + 22
\* Hours between consecutive bars: the next hour, or the next day
Gaps == {1, HoursPerDay}
\* Quiet stretches: long enough to confirm a reversal, or to fill a lookback
QuietRuns == {INTRADAY_REVERSAL_HOURS, DAILY_LOOKBACK_BARS}
\* The interval argument as callers write it
Intervals == {"1H", "4h", "1d", "15m"}
\* The atr_value argument: absent (computed from the Series) or passed in
AtrValues == {None, Some(25)}
\* The columns of a frame built from a Series, and of frames that lack some
OhlcColumns == {"open", "high", "low", "close"}
Frames == {OhlcColumns \cup {"datetime", "volume"},
           OhlcColumns \cup {"timestamp"},
           OhlcColumns \cup {"volume"},
           {"datetime", "open", "high", "low", "volume"}}
\* The header lines of the CSV files
Headers == {{"datetime", "open", "high", "low", "close", "volume"},
            {"Datetime", " Open", "High", "Low", "Close ", "Volume"},
            {"datetime", "open", "high", "low", "close"},
            {"datetime", "open", "high", "low", "volume"},
            {"timestamp", "open", "high", "low", "close", "volume"},
            {"open", "high", "low", "close", "volume"}}
\* What is wrong with the rows of a file
Damages == {"none", "dates", "last close"}

Bar(t, o, c) == [ts |-> t, open |-> o, high |-> Max2(o, c), low |-> Min2(o, c), close |-> c]

\* The rows of a CSV file that holds the Series, damaged as told
FileRows(bars, damage) ==
    [i \in 1..Len(bars) |->
        Row(bars[i], damage # "dates", ~(damage = "last close" /\ i = Len(bars)))]

NoCall == [op |-> "none"]
LastBar == series[Len(series)]
OpenAfter(gap, move) == IF gap > 1 THEN LastBar.close + move ELSE LastBar.close

Init ==
    /\ series = << >>
    /\ steps = 0
    /\ call = NoCall
    /\ outcome = "none"
    /\ result = None
    /\ entered = << >>
    /\ input_files = << >>
    /\ position = 0
    /\ written = 0
    /\ outputs = << >>
    /\ log = << >>
    /\ exit_code = None

\* The first bar of the Series
FirstBar(price, move) ==
    /\ call.op = "none"
    /\ series = << >>
    /\ steps < MaxSteps
    /\ series' = << Bar(StartTs, price, price + move) >>
    /\ steps' = steps + 1
    /\ UNCHANGED <<call, outcome, result, entered>>
    /\ UNCHANGED cli

\* A further bar moves one tick.  An hour after the previous bar it opens at
\* the previous close; after a longer break it opens one tick away from it.
AppendBar(gap, move) ==
    /\ call.op = "none"
    /\ series # << >>
    /\ steps < MaxSteps
    /\ Len(series) < MaxRows
    /\ OpenAfter(gap, move) + move > 0
    /\ series' = Append(series, Bar(LastBar.ts + gap, OpenAfter(gap, move),
                                    OpenAfter(gap, move) + move))
    /\ steps' = steps + 1
    /\ UNCHANGED <<call, outcome, result, entered>>
    /\ UNCHANGED cli

\* A quiet stretch: run hourly bars that stay at the last close
AppendQuiet(run) ==
    /\ call.op = "none"
    /\ series # << >>
    /\ steps < MaxSteps
    /\ Len(series) + run <= MaxRows
    /\ series' = series \o [k \in 1..run |-> Bar(LastBar.ts + k, LastBar.close, LastBar.close)]
    /\ steps' = steps + 1
    /\ UNCHANGED <<call, outcome, result, entered>>
    /\ UNCHANGED cli

\* compute_support_resistance(df, interval, levels, atr_value)
ComputeSupportResistance(interval, levels, atr_value) ==
    /\ call.op = "none"
    /\ call' = [op |-> "compute_support_resistance", interval |-> interval,
                levels |-> levels, atr_value |-> atr_value]
    /\ outcome' = "returned"
    /\ result' = Some(compute_support_resistance(series, interval, levels, atr_value))
    /\ UNCHANGED <<series, steps, entered>>
    /\ UNCHANGED cli

\* analyze_dataframe(df, pair, interval, period) on a frame of the Series
AnalyzeDataframe(columns, interval) ==
    /\ call.op = "none"
    /\ call' = [op |-> "analyze_dataframe", columns |-> columns, pair |-> "USDJPY",
                interval |-> interval, period |-> "10d"]
    /\ outcome' = analyze_dataframe(series, columns, "USDJPY", interval, "10d").outcome
    /\ result' = analyze_dataframe(series, columns, "USDJPY", interval, "10d").result
    /\ UNCHANGED <<series, steps, entered>>
    /\ UNCHANGED cli

\* analyze_file(path) on a CSV file that holds the Series
AnalyzeFile(stem, header, damage) ==
    /\ call.op = "none"
    /\ call' = [op |-> "analyze_file", stem |-> stem, header |-> header, damage |-> damage]
    /\ outcome' = analyze_file(stem, header, FileRows(series, damage)).outcome
    /\ result' = analyze_file(stem, header, FileRows(series, damage)).result
    /\ entered' = analyze_file(stem, header, FileRows(series, damage)).entered
    /\ UNCHANGED <<series, steps>>
    /\ UNCHANGED cli

\* A row of the scenario series of the tests: the time in hours and the
\* prices in hundredths
TestRow(t, o, h, l, c) ==
    [ts |-> t, open |-> 1000 * o, high |-> 1000 * h, low |-> 1000 * l, close |-> 1000 * c]
\* test_compute_support_resistance_1h_reversals: 48 hourly bars
Scenario1h ==
    [i \in 1..48 |->
        IF i - 1 = 2 THEN TestRow(i - 1, 9600, 9650, 9500, 9620)
        ELSE IF i - 1 = 10 THEN TestRow(i - 1, 10400, 10500, 10350, 10400)
        ELSE IF i - 1 = 26 THEN TestRow(i - 1, 9700, 9750, 9600, 9720)
        ELSE IF i - 1 = 30 THEN TestRow(i - 1, 10500, 10600, 10450, 10530)
        ELSE IF i - 1 > 30 THEN TestRow(i - 1, 10000, 10400, 9950, 10080)
        ELSE TestRow(i - 1, 10000, 10100, 9900, 10050)]
\* test_compute_support_resistance_4h_weekly_necklines: 84 four-hour bars
Scenario4h ==
    [i \in 1..84 |->
        IF i = 84 THEN TestRow(4 * (i - 1), 10800, 10900, 10700, 10800)
        ELSE IF 4 * (i - 1) = HoursPerDay + 4 THEN TestRow(4 * (i - 1), 10000, 9500, 9200, 9300)
        ELSE IF 4 * (i - 1) = 4 * HoursPerDay + 8
        THEN TestRow(4 * (i - 1), 10000, 10500, 9900, 10400)
        ELSE IF 4 * (i - 1) = 8 * HoursPerDay + 12
        THEN TestRow(4 * (i - 1), 10000, 9900, 9500, 9600)
        ELSE IF 4 * (i - 1) = 9 * HoursPerDay + 16
        THEN TestRow(4 * (i - 1), 10000, 11100, 10800, 11000)
        ELSE TestRow(4 * (i - 1), 10000, 10100, 9900, 10050)]
\* test_compute_support_resistance_1d_three_candle_reversals: 40 daily bars
Scenario1d ==
    [i \in 1..40 |->
        IF i - 1 = 10 THEN TestRow(HoursPerDay * (i - 1), 10820, 10850, 10800, 10830)
        ELSE IF i - 1 \in {11, 12, 13}
        THEN TestRow(HoursPerDay * (i - 1), 10800, 10820, 10750, 10760)
        ELSE IF i - 1 = 25 THEN TestRow(HoursPerDay * (i - 1), 10780, 10800, 10750, 10760)
        ELSE IF i - 1 \in {26, 27, 28}
        THEN TestRow(HoursPerDay * (i - 1), 10760, 10800, 10750, 10790)
        ELSE IF i - 1 = 39 THEN TestRow(HoursPerDay * (i - 1), 10800, 10820, 10780, 10800)
        ELSE TestRow(HoursPerDay * (i - 1), 9300, 9400, 9200, 9300)]

\* A daily series for the ATR guardrail: the low of bar 1 (1000) and the low of
\* bar 5 (1200) are each followed by three bullish bars; the last close is
\* 1300, so that with an ATR of 25 the first low is beyond 5 x ATR and the
\* second within it
GuardrailSeries ==
    [i \in 1..9 |->
        IF i = 1 THEN [ts |-> 0, open |-> 1010, high |-> 1020, low |-> 1000, close |-> 1010]
        ELSE IF i \in 2..4
        THEN [ts |-> HoursPerDay * (i - 1), open |-> 1190, high |-> 1260, low |-> 1190,
              close |-> 1250]
        ELSE IF i = 5
        THEN [ts |-> HoursPerDay * (i - 1), open |-> 1250, high |-> 1260, low |-> 1200,
              close |-> 1250]
        ELSE IF i \in 6..8
        THEN [ts |-> HoursPerDay * (i - 1), open |-> 1250, high |-> 1310, low |-> 1250,
              close |-> 1300]
        ELSE [ts |-> HoursPerDay * (i - 1), open |-> 1300, high |-> 1310, low |-> 1290,
              close |-> 1300]]

\* An hourly series over four sessions for the price constraints of the 1h
\* ranking: the only confirmed low (2000, first session) is above the last
\* close (1400), and the confirmed highs of the second and third session
\* (1800 and 1600) are below that low
EliminatedSeries ==
    [i \in 1..19 |->
        IF i = 1 THEN [ts |-> 0, open |-> 2050, high |-> 2100, low |-> 2000, close |-> 2050]
        ELSE IF i \in 2..6
        THEN [ts |-> i - 1, open |-> 2050, high |-> 2100, low |-> 2050, close |-> 2050]
        ELSE IF i = 7
        THEN [ts |-> HoursPerDay, open |-> 1750, high |-> 1800, low |-> 1700, close |-> 1750]
        ELSE IF i \in 8..12
        THEN [ts |-> HoursPerDay + i - 7, open |-> 1750, high |-> 1750, low |-> 1700,
              close |-> 1750]
        ELSE IF i = 13
        THEN [ts |-> 2 * HoursPerDay, open |-> 1550, high |-> 1600, low |-> 1500,
              close |-> 1550]
        ELSE IF i \in 14..18
        THEN [ts |-> 2 * HoursPerDay + i - 13, open |-> 1550, high |-> 1550, low |-> 1500,
              close |-> 1550]
        ELSE [ts |-> 3 * HoursPerDay, open |-> 1450, high |-> 1450, low |-> 1400,
              close |-> 1400]]

\* A bar of the engineered hourly series
HourBar(i, o, h, l, c) == [ts |-> i - 1, open |-> o, high |-> h, low |-> l, close |-> c]
\* 220 hourly bars, flat at 100 until the final bar dips to 98 and closes at
\* 101, above every EMA
EmaDipSeries ==
    [i \in 1..220 |-> IF i = 220 THEN HourBar(i, 100, 101, 98, 101)
                       ELSE HourBar(i, 100, 100, 100, 100)]
\* 110 hourly bars: flat at 100; bar 31 dips to 98 and closes at 104, and the
\* closes go on to 106 and 108 and stay there; bar 101 spikes to 110 and closes
\* at 104, and the closes go on to 103 and 102 and stay there
EmaBounceRejectSeries ==
    [i \in 1..110 |->
        IF i <= 30 THEN HourBar(i, 100, 100, 100, 100)
        ELSE IF i = 31 THEN HourBar(i, 100, 104, 98, 104)
        ELSE IF i = 32 THEN HourBar(i, 104, 106, 104, 106)
        ELSE IF i = 33 THEN HourBar(i, 106, 108, 106, 108)
        ELSE IF i <= 100 THEN HourBar(i, 108, 108, 108, 108)
        ELSE IF i = 101 THEN HourBar(i, 108, 110, 104, 104)
        ELSE IF i = 102 THEN HourBar(i, 104, 104, 103, 103)
        ELSE IF i = 103 THEN HourBar(i, 103, 103, 102, 102)
        ELSE HourBar(i, 102, 102, 102, 102)]
\* The same series with every price p replaced by 208 - p: a rejection at
\* bar 31 and a bounce at bar 101
EmaRejectBounceSeries ==
    [i \in 1..110 |->
        HourBar(i, 208 - EmaBounceRejectSeries[i].open, 208 - EmaBounceRejectSeries[i].low,
                208 - EmaBounceRejectSeries[i].high, 208 - EmaBounceRejectSeries[i].close)]
\* The first 100 bars of either: one event, 69 bars before the last bar
EmaSeriesSet ==
    {EmaDipSeries, EmaBounceRejectSeries, EmaRejectBounceSeries,
     SubSeq(EmaBounceRejectSeries, 1, 100), SubSeq(EmaRejectBounceSeries, 1, 100)}
\* Bars 20 to 33 and 20 to 34 of the series with the bounce: 14 and 15 closes
\* that rise and never fall, on either side of the RSI_PERIOD + 1 closes that
\* the smoothed averages of compute_rsi need
RsiSeriesSet ==
    {SubSeq(EmaBounceRejectSeries, 20, 19 + RSI_PERIOD),
     SubSeq(EmaBounceRejectSeries, 20, 20 + RSI_PERIOD)}

\* The Series is one of the scenario series of the tests or of the engineered
\* series above, taken as it is
TestSeries(scenario) ==
    /\ call.op = "none"
    /\ series = << >>
    /\ steps = 0
    /\ series' = scenario
    /\ steps' = MaxSteps
    /\ UNCHANGED <<call, outcome, result, entered>>
    /\ UNCHANGED cli

Extend ==
    \/ \E price \in StartPrices, move \in {Tick, -Tick} : FirstBar(price, move)
    \/ \E gap \in Gaps, move \in {Tick, -Tick} : AppendBar(gap, move)

\* The Structural Level Engine called directly
Next ==
    \/ Extend
    \/ \E scenario \in {Scenario1h, Scenario4h, Scenario1d, GuardrailSeries,
                         EliminatedSeries} :
            TestSeries(scenario)
    \/ \E run \in QuietRuns : AppendQuiet(run)
    \/ \E interval \in Intervals, levels \in 1..MaxLevels, atr_value \in AtrValues :
            ComputeSupportResistance(interval, levels, atr_value)

Spec == Init /\ [][Next]_vars

\* The Analysis Orchestrator called on a frame
NextAnalyze ==
    \/ Extend
    \/ \E scenario \in EmaSeriesSet \cup RsiSeriesSet : TestSeries(scenario)
    \/ \E run \in QuietRuns : AppendQuiet(run)
    \/ \E columns \in Frames, interval \in Intervals : AnalyzeDataframe(columns, interval)

SpecAnalyze == Init /\ [][NextAnalyze]_vars

\* The engine called again and again by one caller.  call.made counts the
\* calls made so far, and stays with the caller between calls.
MaxCalls == 2
IndicatorFunctions ==
    {"detect_trend", "compute_rsi", "compute_atr", "compute_average_volatility"}
Made == IF call = NoCall THEN 0 ELSE call.made

\* The caller's frame if the session_date column were assigned on df itself
CallerFrame_Assigned(df) ==
    [i \in 1..Len(df) |->
        [ts |-> df[i].ts, open |-> df[i].open, high |-> df[i].high, low |-> df[i].low,
         close |-> df[i].close, session_date |-> SessionDate(df[i].ts)]]
\* The caller's frame after a call: the engine assigns (the converted time
\* column, session_date, week) only on df.copy() and df.tail(...).copy()
CallerFrame(df) == df

\* What an indicator function returns on a frame
Indicator(fn, df) ==
    IF fn = "detect_trend" THEN detect_trend(Closes(df))
    ELSE IF fn = "compute_rsi" THEN compute_rsi(Closes(df))
    ELSE IF fn = "compute_atr" THEN compute_atr(df)
    ELSE compute_average_volatility(df)

\* compute_support_resistance(df, interval, levels, atr_value), whatever was
\* called before
CallLevels(interval, levels, atr_value) ==
    /\ Made < MaxCalls
    /\ call' = [op |-> "compute_support_resistance", interval |-> interval,
                levels |-> levels, atr_value |-> atr_value, made |-> Made + 1]
    /\ outcome' = "returned"
    /\ result' = Some(compute_support_resistance(series, interval, levels, atr_value))
    /\ series' = CallerFrame(series)
    /\ UNCHANGED <<steps, entered>>
    /\ UNCHANGED cli

\* detect_trend or an indicator function, whatever was called before
CallIndicator(fn) ==
    /\ Made < MaxCalls
    /\ call' = [op |-> fn, made |-> Made + 1]
    /\ outcome' = "returned"
    /\ result' = Some(Indicator(fn, series))
    /\ series' = CallerFrame(series)
    /\ UNCHANGED <<steps, entered>>
    /\ UNCHANGED cli

\* The caller goes back to its Series
BackToCaller ==
    /\ call.op # "none"
    /\ call' = [op |-> "none", made |-> call.made]
    /\ outcome' = "none"
    /\ result' = None
    /\ UNCHANGED <<series, steps, entered>>
    /\ UNCHANGED cli

NextEngine ==
    \/ \E price \in StartPrices, move \in {Tick, -Tick} : FirstBar(price, move)
    \/ \E move \in {Tick, -Tick} : AppendBar(1, move)
    \/ \E scenario \in {EmaBounceRejectSeries, EmaRejectBounceSeries} : TestSeries(scenario)
    \/ \E interval \in Intervals, levels \in 1..MaxLevels, atr_value \in AtrValues :
            CallLevels(interval, levels, atr_value)
    \/ \E fn \in IndicatorFunctions : CallIndicator(fn)
    \/ BackToCaller

SpecEngine == Init /\ [][NextEngine]_vars

\* The Analysis Orchestrator called on a CSV file
NextFile ==
    \/ Extend
    \/ \E stem \in FileStems, header \in Headers, damage \in Damages :
            AnalyzeFile(stem, header, damage)
    \/ \E columns \in Frames, interval \in Intervals : AnalyzeDataframe(columns, interval)

SpecFile == Init /\ [][NextFile]_vars

(***************************************************************************)
(* main: the loop of the command line over the input files                 *)
(***************************************************************************)
\* The most input files of a run
MaxFiles == 3
\* The bars held by the CSV files of a run
SampleBars == <<Bar(StartTs, 110, 120), Bar(StartTs + 1, 120, 110)>>
\* The files a run can be given: two that analyse, one whose name does not
\* match, one that lacks a column, one whose rows all fail to parse, and one
\* that is not a CSV file
InputFiles ==
    {[stem |-> "USDJPY_1h_10d", suffix |-> ".csv", damage |-> "none",
      header |-> {"datetime", "open", "high", "low", "close", "volume"}],
     [stem |-> "eurusd_1d_1y", suffix |-> ".CSV", damage |-> "none",
      header |-> {"Datetime", " Open", "High", "Low", "Close ", "Volume"}],
     [stem |-> "notes", suffix |-> ".csv", damage |-> "none",
      header |-> {"datetime", "open", "high", "low", "close", "volume"}],
     [stem |-> "USDJPY_1h_10d", suffix |-> ".csv", damage |-> "none",
      header |-> {"datetime", "open", "high", "low", "volume"}],
     [stem |-> "eurusd_1d_1y", suffix |-> ".csv", damage |-> "dates",
      header |-> {"datetime", "open", "high", "low", "close", "volume"}],
     [stem |-> "USDJPY_1h_10d", suffix |-> ".txt", damage |-> "none",
      header |-> {"datetime", "open", "high", "low", "close", "volume"}]}
\* analyze_file(csv_path)
AnalysisOf(file) == analyze_file(file.stem, file.header, FileRows(SampleBars, file.damage))

\* A loop that ends at the first file that fails
AfterFailure_LeavesLoop(at) == Len(input_files) + 1
\* except Exception: logger.error(...); continue
AfterFailure(at) == at + 1

\* main up to the loop: the arguments are parsed and the input files
\* collected; with no input file parser.error exits with code 2
MainStart(files) ==
    /\ position = 0
    /\ call.op = "none"
    /\ series = << >>
    /\ input_files' = files
    /\ position' = 1
    /\ written' = 0
    /\ exit_code' = IF files = << >> THEN Some(2) ELSE None
    /\ UNCHANGED <<series, steps, call, outcome, result, entered, outputs, log>>

\* One iteration of the loop, on the file at position
MainIteration ==
    /\ exit_code = None
    /\ position \in 1..Len(input_files)
    /\ IF Lower(input_files[position].suffix) # ".csv"
       THEN /\ log' = Append(log, [file |-> position, event |-> "skipped"])
            /\ position' = position + 1
            /\ UNCHANGED <<written, outputs>>
       ELSE IF AnalysisOf(input_files[position]).outcome # "returned"
       THEN /\ log' = Append(log, [file |-> position, event |-> "failed"])
            /\ position' = AfterFailure(position)
            /\ UNCHANGED <<written, outputs>>
       ELSE /\ outputs' = Append(outputs,
                    [file |-> position, stem |-> input_files[position].stem,
                     result |-> AnalysisOf(input_files[position]).result])
            /\ written' = written + 1
            /\ log' = Append(log, [file |-> position, event |-> "wrote"])
            /\ position' = position + 1
    /\ UNCHANGED <<series, steps, call, outcome, result, entered, input_files, exit_code>>

\* After the loop: 1 when nothing was written, else 0
MainReturn ==
    /\ exit_code = None
    /\ position = Len(input_files) + 1
    /\ exit_code' = Some(IF written = 0 THEN 1 ELSE 0)
    /\ UNCHANGED <<series, steps, call, outcome, result, entered,
                   input_files, position, written, outputs, log>>

\* The input lists of at most MaxFiles files
FileLists == UNION {[1..n -> InputFiles] : n \in 0..MaxFiles}

NextMain ==
    \/ \E files \in FileLists : MainStart(files)
    \/ MainIteration
    \/ MainReturn

SpecMain == Init /\ [][NextMain]_vars

(***************************************************************************)
(* Properties of compute_support_resistance, checked under Spec            *)
(***************************************************************************)
\* C1: for 1h, a Series of at least one bar and N >= 1, when both returned
\* lists are non-empty the lowest resistance is at or above the highest
\* support.
C1_ResistanceAboveSupport ==
    (/\ call.op = "compute_support_resistance"
     /\ Lower(call.interval) = "1h"
     /\ series # << >>
     /\ call.levels >= 1
     /\ Val(result).supports # << >>
     /\ Val(result).resistances # << >>)
    => SetMin(Range(Val(result).resistances)) >= SetMax(Range(Val(result).supports))

\* C2: for 1h, a Series of at least one bar and N >= 1, every returned
\* resistance is at or above the last close of the Series.
C2_ResistanceAtOrAboveLastClose ==
    (/\ call.op = "compute_support_resistance"
     /\ Lower(call.interval) = "1h"
     /\ series # << >>
     /\ call.levels >= 1)
    => \A k \in 1..Len(Val(result).resistances) :
            Val(result).resistances[k] >= LastBar.close

\* C3: for every interval and every positive merge tolerance T (the ATR passed
\* in, or computed from the Series), two different values of a returned list
\* are at least T apart.
C3_LevelsApartByTolerance ==
    (/\ call.op = "compute_support_resistance"
     /\ series # << >>
     /\ ~IsNone(AtrForLevels(series, call.atr_value))
     /\ Val(AtrForLevels(series, call.atr_value)) > 0)
    => /\ \A i, j \in 1..Len(Val(result).supports) :
            Val(result).supports[i] # Val(result).supports[j]
            => Abs(Val(result).supports[i] - Val(result).supports[j])
                    >= Val(AtrForLevels(series, call.atr_value))
       /\ \A i, j \in 1..Len(Val(result).resistances) :
            Val(result).resistances[i] # Val(result).resistances[j]
            => Abs(Val(result).resistances[i] - Val(result).resistances[j])
                    >= Val(AtrForLevels(series, call.atr_value))

\* C4: for a Series of at least one bar, every interval and N >= 1,
\* compute_support_resistance returns, and returns a non-empty support list and
\* a non-empty resistance list.
C4_BothListsNonEmpty ==
    (/\ call.op = "compute_support_resistance"
     /\ series # << >>
     /\ call.levels >= 1)
    => /\ outcome = "returned"
       /\ Val(result).supports # << >>
       /\ Val(result).resistances # << >>

\* A 1h call in which reversal detection, ranking and fill-in found supports
\* but no resistance, and the returned resistance list is not empty.
C4_FallbackSuppliedResistances ==
    /\ call.op = "compute_support_resistance"
    /\ Lower(call.interval) = "1h"
    /\ series # << >>
    /\ IntradayLevels(Tail_(series, INTRADAY_LOOKBACK_BARS), call.levels, LastBar.close,
                      AtrForLevels(series, call.atr_value)).supports # << >>
    /\ IntradayLevels(Tail_(series, INTRADAY_LOOKBACK_BARS), call.levels, LastBar.close,
                      AtrForLevels(series, call.atr_value)).resistances = << >>
    /\ Val(result).resistances # << >>

\* C5: each returned list has at most N entries, the supports are in ascending
\* order and the resistances in descending order.
C5_BoundedAndOrdered ==
    call.op = "compute_support_resistance"
    => /\ Len(Val(result).supports) <= call.levels
       /\ Len(Val(result).resistances) <= call.levels
       /\ \A i \in 1..(Len(Val(result).supports) - 1) :
            Val(result).supports[i] <= Val(result).supports[i + 1]
       /\ \A i \in 1..(Len(Val(result).resistances) - 1) :
            Val(result).resistances[i] >= Val(result).resistances[i + 1]

\* A 1h call with N = 2 in which ranking left one support and fill-in added a
\* second one, returned in ascending order.
C5_FilledInOrder ==
    /\ call.op = "compute_support_resistance"
    /\ Lower(call.interval) = "1h"
    /\ call.levels = 2
    /\ ~IsNone(AtrForLevels(series, call.atr_value))
    /\ Len(IntradayRankedSupports(
                IntradayCandidates(Tail_(series, INTRADAY_LOOKBACK_BARS), TRUE),
                call.levels, LastBar.close,
                Val(AtrForLevels(series, call.atr_value)))) = 1
    /\ Len(Val(result).supports) = 2
    /\ Val(result).supports[1] < Val(result).supports[2]
    /\ Val(result).supports =
            IntradayLevels(Tail_(series, INTRADAY_LOOKBACK_BARS), call.levels, LastBar.close,
                           AtrForLevels(series, call.atr_value)).supports

\* C6: for 1h, 4h and 1d, every returned support is the 4-decimal low and
\* every returned resistance the 4-decimal high of a bar among the last
\* LOOKBACK bars of the Series.
C6_LevelsAreWindowExtremes ==
    (/\ call.op = "compute_support_resistance"
     /\ Lower(call.interval) \in {"1h", "4h", "1d"})
    => /\ \A k \in 1..Len(Val(result).supports) :
            \E b \in Range(Tail_(series, Lookback(Lower(call.interval)))) :
                Val(result).supports[k] = Round4(b.low)
       /\ \A k \in 1..Len(Val(result).resistances) :
            \E b \in Range(Tail_(series, Lookback(Lower(call.interval)))) :
                Val(result).resistances[k] = Round4(b.high)

(***************************************************************************)
(* Properties of analyze_dataframe, checked under SpecAnalyze              *)
(***************************************************************************)
\* C7: analyze_dataframe returns for every Series of one or more bars whose
\* frame has the price columns and a time column, whatever the interval; with
\* fewer than 2 bars the RSI and the ATR of the result are absent.
C7_AnalysisCompletes ==
    (/\ call.op = "analyze_dataframe"
     /\ series # << >>
     /\ OhlcColumns \subseteq call.columns
     /\ ~IsNone(_get_time_column(call.columns)))
    => /\ outcome = "returned"
       /\ ~IsNone(result)
       /\ Len(series) < 2 => (IsNone(Val(result).rsi) /\ IsNone(Val(result).atr))

\* analyze_dataframe returned for a Series of a single bar: no RSI, no ATR,
\* SIDEWAYS, and one level on each side.
C7_SingleBarAnalysed ==
    /\ call.op = "analyze_dataframe"
    /\ Len(series) = 1
    /\ outcome = "returned"
    /\ IsNone(Val(result).rsi)
    /\ IsNone(Val(result).atr)
    /\ Val(result).trend = "SIDEWAYS"
    /\ Len(Val(result).support_levels) = 1
    /\ Len(Val(result).resistance_levels) = 1

(***************************************************************************)
(* Properties of analyze_file, checked under SpecFile                      *)
(***************************************************************************)
\* analyze_file reaches `if df.empty` with an empty frame: the file of the call
\* names its pair, interval and period, has every expected column, and none of
\* its rows survives the Normalizer
AllRowsFilteredOut ==
    /\ call.op = "analyze_file"
    /\ ~IsNone(parse_metadata_from_filename(call.stem))
    /\ load_ohlc_csv(call.header, FileRows(series, call.damage)) = Some(<< >>)

\* C8 as stated: an empty Series is analysed without error, to SIDEWAYS with
\* no indicator and no level, by analyze_dataframe and by analyze_file alike.
C8_EmptySeriesIsNotAnError ==
    /\ (/\ call.op = "analyze_dataframe"
        /\ series = << >>
        /\ OhlcColumns \subseteq call.columns
        /\ ~IsNone(_get_time_column(call.columns)))
       => (/\ outcome = "returned"
           /\ Val(result).trend = "SIDEWAYS"
           /\ IsNone(Val(result).rsi)
           /\ IsNone(Val(result).atr)
           /\ IsNone(Val(result).average_volatility)
           /\ Val(result).support_levels = << >>
           /\ Val(result).resistance_levels = << >>)
    /\ AllRowsFilteredOut
       => (/\ outcome = "returned"
           /\ ~IsNone(result)
           /\ Val(result).trend = "SIDEWAYS"
           /\ IsNone(Val(result).rsi)
           /\ IsNone(Val(result).atr)
           /\ IsNone(Val(result).average_volatility)
           /\ Val(result).support_levels = << >>
           /\ Val(result).resistance_levels = << >>)

\* C8 amended: analyze_dataframe analyses an empty Series without error, to
\* SIDEWAYS with no indicator and no level; analyze_file raises ValueError
\* ("No data rows") when every row was filtered out, and produces no result.
C8_EmptySeriesDirectlyOrFromFile ==
    /\ (/\ call.op = "analyze_dataframe"
        /\ series = << >>
        /\ OhlcColumns \subseteq call.columns
        /\ ~IsNone(_get_time_column(call.columns)))
       => (/\ outcome = "returned"
           /\ Val(result).trend = "SIDEWAYS"
           /\ IsNone(Val(result).rsi)
           /\ IsNone(Val(result).atr)
           /\ IsNone(Val(result).average_volatility)
           /\ Val(result).support_levels = << >>
           /\ Val(result).resistance_levels = << >>)
    /\ AllRowsFilteredOut
       => /\ outcome = "ValueError: no data rows"
          /\ IsNone(result)
          /\ "analyze_dataframe" \notin Range(entered)

\* analyze_file was called on a file that has rows, none of which has a date
\* that parses.
C8_EveryRowDropped ==
    /\ AllRowsFilteredOut
    /\ series # << >>
    /\ call.damage = "dates"
    /\ outcome = "ValueError: no data rows"

\* C9: when the file lacks a required column, load_ohlc_csv raises ValueError
\* before analyze_dataframe is entered, and there is no result.
C9_MissingColumnRaisesBeforeAnalysis ==
    (/\ call.op = "analyze_file"
     /\ ~IsNone(parse_metadata_from_filename(call.stem))
     /\ ~({"datetime", "open", "high", "low", "close"}
                \subseteq _normalize_columns(call.header)))
    => /\ outcome = "ValueError: missing columns"
       /\ IsNone(result)
       /\ entered = <<"parse_metadata_from_filename", "load_ohlc_csv">>

\* analyze_file was called on a file of bars that has a volume column and no
\* close column, and raised.
C9_CloseColumnMissing ==
    /\ call.op = "analyze_file"
    /\ series # << >>
    /\ ~IsNone(parse_metadata_from_filename(call.stem))
    /\ "close" \notin _normalize_columns(call.header)
    /\ "volume" \in _normalize_columns(call.header)
    /\ outcome = "ValueError: missing columns"

\* C10: a file that has the time column and the four prices but no volume
\* column is loaded and analysed.
C10_VolumeIsOptional ==
    (/\ call.op = "analyze_file"
     /\ ~IsNone(parse_metadata_from_filename(call.stem))
     /\ {"datetime", "open", "high", "low", "close"}
            \subseteq _normalize_columns(call.header)
     /\ "volume" \notin _normalize_columns(call.header)
     /\ series # << >>
     /\ call.damage = "none")
    => /\ outcome = "returned"
       /\ ~IsNone(result)

(***************************************************************************)
(* Properties of main, checked under SpecMain                              *)
(***************************************************************************)
\* C11: once the loop of main is reached, the files are visited in order,
\* each once; a file for which analyze_file raises is logged as failed and no
\* output is written for it; every file that analyses is written, the later
\* ones included; main returns only after the last file, with exit code 0
\* if and only if at least one analysis was written, and 1 otherwise.
C11_LoopSkipsFailuresAndContinues ==
    (position >= 1 /\ input_files # << >>)
    => /\ Len(log) = Min2(position, Len(input_files) + 1) - 1
       /\ \A i \in 1..Len(log) :
            /\ log[i].file = i
            /\ log[i].event = "failed"
                <=> (/\ Lower(input_files[i].suffix) = ".csv"
                     /\ AnalysisOf(input_files[i]).outcome # "returned")
            /\ log[i].event = "wrote"
                <=> (/\ Lower(input_files[i].suffix) = ".csv"
                     /\ AnalysisOf(input_files[i]).outcome = "returned")
            /\ log[i].event = "wrote"
                <=> Cardinality({k \in 1..Len(outputs) : outputs[k].file = i}) = 1
            /\ log[i].event # "wrote"
                => \A k \in 1..Len(outputs) : outputs[k].file # i
       /\ \A k \in 1..(Len(outputs) - 1) : outputs[k].file < outputs[k + 1].file
       /\ written = Len(outputs)
       /\ ~IsNone(exit_code)
            => /\ Len(log) = Len(input_files)
               /\ Val(exit_code) \in {0, 1}
               /\ Val(exit_code) = 0 <=> Len(outputs) >= 1

\* A finished run in which a file failed and a later file was written.
C11_LaterFileWrittenAfterFailure ==
    /\ ~IsNone(exit_code)
    /\ \E i, j \in 1..Len(log) :
            /\ i < j
            /\ log[i].event = "failed"
            /\ log[j].event = "wrote"
            /\ \E k \in 1..Len(outputs) : outputs[k].file = j

(***************************************************************************)
(* Properties of the indicators, checked under SpecAnalyze                 *)
(***************************************************************************)
\* C12: on every Series (each bar has low <= open, close <= high), the RSI,
\* when present, is between 0 and 100, and the ATR and the average
\* volatility, when present, are not negative.
C12_IndicatorsInRange ==
    (call.op = "analyze_dataframe" /\ outcome = "returned")
    => /\ ~IsNone(Val(result).rsi)
            => (Val(Val(result).rsi).value >= 0 /\ Val(Val(result).rsi).value <= 10000)
       /\ ~IsNone(Val(result).atr) => Val(Val(result).atr) >= 0
       /\ ~IsNone(Val(result).average_volatility)
            => Val(Val(result).average_volatility) >= 0

\* An analysis whose RSI came from smoothed gains and losses that are both
\* positive, with the ATR and the average volatility present.
C12_RsiFromGainsAndLosses ==
    /\ call.op = "analyze_dataframe"
    /\ outcome = "returned"
    /\ ~IsNone(Val(result).rsi)
    /\ Val(Val(result).rsi).gain
    /\ Val(Val(result).rsi).loss
    /\ Val(Val(result).rsi).value > 0
    /\ Val(Val(result).rsi).value < 10000
    /\ ~IsNone(Val(result).atr)
    /\ ~IsNone(Val(result).average_volatility)

\* The class of blended = 0.6 * (end - start) / start + 0.4 * (last - first) / first
\* against +0.002 and -0.002, for positive prices, where first = s1 / k1 and
\* last = s2 / k2 are means of k1 and k2 closes: both sides are multiplied by
\* 500 * start * s1 * k2.
C13_Classify(start, end, s1, k1, s2, k2) ==
    IF 300 * (end - start) * s1 * k2 + 200 * (s2 * k1 - s1 * k2) * start > start * s1 * k2
    THEN "UP"
    ELSE IF 300 * (end - start) * s1 * k2 + 200 * (s2 * k1 - s1 * k2) * start
                < -(start * s1 * k2)
    THEN "DOWN"
    ELSE "SIDEWAYS"
\* With a centered rolling mean of window w over n closes every index has a
\* value: the first is the mean of the first (w - 1) \div 2 + 1 closes, the
\* last the mean of the last w - (w - 1) \div 2 closes (of all n when fewer).
C13_Centered(closes, n, w) ==
    C13_Classify(closes[1], closes[n],
                 SumSeq(SubSeq(closes, 1, Min2((w - 1) \div 2 + 1, n))),
                 Min2((w - 1) \div 2 + 1, n),
                 SumSeq(Tail_(closes, Min2(w - (w - 1) \div 2, n))),
                 Min2(w - (w - 1) \div 2, n))
\* With a trailing rolling mean of window w and minimum periods m over n
\* closes the first value is the mean of the first m closes and the last the
\* mean of the last min(w, n) closes; fewer than two values give slope 0.
C13_Trailing(closes, n, w, m) ==
    IF n - m + 1 >= 2
    THEN C13_Classify(closes[1], closes[n], SumSeq(SubSeq(closes, 1, m)), m,
                      SumSeq(Tail_(closes, Min2(w, n))), Min2(w, n))
    ELSE C13_Classify(closes[1], closes[n], 1, 1, 1, 1)

\* C13 as stated: the trend is UP iff blended > +0.002, DOWN iff blended <
\* -0.002 and SIDEWAYS otherwise, where the slope ratio of blended is the
\* relative change between the first and the last valid value of a centered
\* rolling mean of the closes with window clamp(length, 3, 20) and minimum
\* periods half the window; SIDEWAYS with fewer than 2 closes.
C13_TrendOfCenteredMean ==
    (call.op = "analyze_dataframe" /\ outcome = "returned")
    => Val(result).trend =
        IF Len(series) < 2 THEN "SIDEWAYS"
        ELSE C13_Centered(Closes(series), Len(series), Max2(3, Min2(20, Len(series))))

\* C13 amended: the same with the slope ratio taken from a trailing rolling
\* mean of the closes with window clamp(length, 3, 20) and minimum periods
\* max(2, window // 2), and 0 when fewer than two rolling means are valid.
C13_TrendOfTrailingMean ==
    (call.op = "analyze_dataframe" /\ outcome = "returned")
    => Val(result).trend =
        IF Len(series) < 2 THEN "SIDEWAYS"
        ELSE C13_Trailing(Closes(series), Len(series), Max2(3, Min2(20, Len(series))),
                          Max2(2, Max2(3, Min2(20, Len(series))) \div 2))

\* An analysis of a Series longer than the window whose trend is UP under the
\* trailing mean and would be SIDEWAYS or DOWN under a centered mean.
C13_TrailingUpCenteredNot ==
    /\ call.op = "analyze_dataframe"
    /\ outcome = "returned"
    /\ Len(series) > 20
    /\ Val(result).trend = "UP"
    /\ C13_Centered(Closes(series), Len(series), 20) # "UP"

(***************************************************************************)
(* Further properties of compute_support_resistance, checked under Spec    *)
(***************************************************************************)
\* C14: for the intervals other than 1h (4h, 1d and the unrecognized ones),
\* when both returned lists are non-empty the lowest resistance is at or
\* above the highest support.
C14_ResistanceAboveSupportOffIntraday ==
    (/\ call.op = "compute_support_resistance"
     /\ Lower(call.interval) # "1h"
     /\ Val(result).supports # << >>
     /\ Val(result).resistances # << >>)
    => SetMin(Range(Val(result).resistances)) >= SetMax(Range(Val(result).supports))

\* C15: for 1h with N = 2 and the ATR computed from the Series, when exactly
\* two session lows are confirmed reversals at or below the last close and
\* exactly two session highs are confirmed reversals at or above it, both
\* lows are the supports and both highs the resistances; on the 48-hour
\* scenario series the result is supports [95.0, 96.0] and resistances
\* [106.0, 105.0].
C15_BothConfirmedReversalsReturned ==
    (/\ call.op = "compute_support_resistance"
     /\ Lower(call.interval) = "1h"
     /\ call.levels = 2
     /\ IsNone(call.atr_value))
    => /\ (/\ Len(IntradayCandidates(Tail_(series, INTRADAY_LOOKBACK_BARS), TRUE)) = 2
           /\ Len(IntradayCandidates(Tail_(series, INTRADAY_LOOKBACK_BARS), FALSE)) = 2
           /\ \A k \in 1..2 :
                /\ IntradayCandidates(Tail_(series, INTRADAY_LOOKBACK_BARS), TRUE)[k].price
                        <= LastBar.close
                /\ IntradayCandidates(Tail_(series, INTRADAY_LOOKBACK_BARS), FALSE)[k].price
                        >= LastBar.close)
          => /\ Val(result).supports = SortAsc(RoundAll(Prices(
                    IntradayCandidates(Tail_(series, INTRADAY_LOOKBACK_BARS), TRUE))))
             /\ Val(result).resistances = SortDesc(RoundAll(Prices(
                    IntradayCandidates(Tail_(series, INTRADAY_LOOKBACK_BARS), FALSE))))
       /\ series = Scenario1h
          => /\ Val(result).supports = <<9500000, 9600000>>
             /\ Val(result).resistances = <<10600000, 10500000>>

\* C16: for 4h with N = 2, when the last calendar week made a higher high or
\* a lower low than the week before, the returned supports are the lows of
\* the two weeks and the returned resistances their highs; on the 84-bar
\* scenario series the result is supports [92.0, 95.0] and resistances
\* [111.0, 105.0].
C16_BothWeeksNecklinesReturned ==
    (/\ call.op = "compute_support_resistance"
     /\ Lower(call.interval) = "4h"
     /\ call.levels = 2
     /\ series # << >>)
    => /\ Breakout(WeeklyRows(Tail_(series, FOUR_HOUR_LOOKBACK_BARS)))
          => /\ Val(result).supports = SortAsc(RoundAll(Prices(NecklineCandidates(
                    WeeklyRows(Tail_(series, FOUR_HOUR_LOOKBACK_BARS)), TRUE))))
             /\ Val(result).resistances = SortDesc(RoundAll(Prices(NecklineCandidates(
                    WeeklyRows(Tail_(series, FOUR_HOUR_LOOKBACK_BARS)), FALSE))))
       /\ (series = Scenario4h /\ IsNone(call.atr_value))
          => /\ Val(result).supports = <<9200000, 9500000>>
             /\ Val(result).resistances = <<11100000, 10500000>>

C18_Candidates(is_support) ==
    CandidatesAt(Tail_(series, DAILY_LOOKBACK_BARS),
                 ReversalIdx(Tail_(series, DAILY_LOOKBACK_BARS), is_support), is_support)
C18_Returned(is_support) ==
    IF is_support THEN Val(result).supports ELSE Val(result).resistances
C18_Near(price) ==
    Abs(price - LastBar.close) <= 5 * Val(AtrForLevels(series, call.atr_value))
C18_Survivors(is_support) ==
    {C18_Candidates(is_support)[k].price : k \in
        {k \in 1..Len(C18_Candidates(is_support)) :
            C18_Near(C18_Candidates(is_support)[k].price)}}
C18_DailyCallWithAtr ==
    /\ call.op = "compute_support_resistance"
    /\ Lower(call.interval) = "1d"
    /\ series # << >>
    /\ ~IsNone(AtrForLevels(series, call.atr_value))

\* C18 as stated: for 1d with an ATR value a, a reversal candidate farther
\* than 5 * a from the last close is not among the returned levels (unless a
\* candidate within 5 * a has the same 4-decimal price), and a candidate
\* within 5 * a survives: it is returned when at most N candidates survive.
C18_FarCandidatesNotReturned ==
    C18_DailyCallWithAtr
    => \A is_support \in BOOLEAN :
        /\ \A k \in 1..Len(C18_Candidates(is_support)) :
                (/\ ~C18_Near(C18_Candidates(is_support)[k].price)
                 /\ \A p \in C18_Survivors(is_support) :
                        Round4(p) # Round4(C18_Candidates(is_support)[k].price))
                => \A j \in 1..Len(C18_Returned(is_support)) :
                        C18_Returned(is_support)[j]
                            # Round4(C18_Candidates(is_support)[k].price)
        /\ Cardinality(C18_Survivors(is_support)) <= call.levels
            => \A p \in C18_Survivors(is_support) :
                    \E j \in 1..Len(C18_Returned(is_support)) :
                        C18_Returned(is_support)[j] = Round4(p)

\* C18 amended: a candidate farther than 5 * a from the last close is
\* discarded before ranking: when a candidate of the side survives, every
\* returned level of the side is the 4-decimal price of a survivor, and all
\* survivors are returned when they are at most N; when none survives, the
\* side is the simple extremes of the window, guardrail or not.
C18_FarCandidatesNotRanked ==
    C18_DailyCallWithAtr
    => \A is_support \in BOOLEAN :
        IF C18_Survivors(is_support) # {} /\ call.levels >= 1
        THEN /\ \A j \in 1..Len(C18_Returned(is_support)) :
                    \E p \in C18_Survivors(is_support) :
                        C18_Returned(is_support)[j] = Round4(p)
             /\ Cardinality(C18_Survivors(is_support)) <= call.levels
                => \A p \in C18_Survivors(is_support) :
                        \E j \in 1..Len(C18_Returned(is_support)) :
                            C18_Returned(is_support)[j] = Round4(p)
        ELSE C18_Returned(is_support)
                = IF is_support
                  THEN FallbackSupports(Tail_(series, DAILY_LOOKBACK_BARS), call.levels)
                  ELSE FallbackResistances(Tail_(series, DAILY_LOOKBACK_BARS), call.levels)

\* A 1d call with an ATR passed in which one support candidate is beyond the
\* guardrail and one within it, and only the near one is returned.
C18_FarDroppedNearReturned ==
    /\ C18_DailyCallWithAtr
    /\ ~IsNone(call.atr_value)
    /\ call.levels = 2
    /\ Len(C18_Candidates(TRUE)) = 2
    /\ Cardinality(C18_Survivors(TRUE)) = 1
    /\ Val(result).supports = <<1200>>

(***************************************************************************)
(* Properties of _rank_levels, checked under Spec on the candidates that   *)
(* the interval algorithms hand to it                                      *)
(***************************************************************************)
\* a comes before b, or ties with it: distance-first by smaller distance to
\* the last close, then by the more recent time; structure-first by the
\* older time, then by the smaller distance
C19_Before(a, b, last_close, distance_first) ==
    IF distance_first
    THEN \/ Abs(a.price - last_close) < Abs(b.price - last_close)
         \/ (Abs(a.price - last_close) = Abs(b.price - last_close) /\ a.ts >= b.ts)
    ELSE \/ a.ts < b.ts
         \/ (a.ts = b.ts /\ Abs(a.price - last_close) <= Abs(b.price - last_close))
\* ranked holds the prices of the first min(N, Len) of the candidates cands
\* in the order of the mode
C19_FirstN(ranked, cands, last_close, distance_first, max_levels) ==
    /\ Len(ranked) = Min2(max_levels, Len(cands))
    /\ \A j \in 1..Len(ranked) : \E k \in 1..Len(cands) : cands[k].price = ranked[j]
    /\ \A a, b \in 1..Len(cands) :
            (cands[a].price \in Range(ranked) /\ cands[b].price \notin Range(ranked))
            => C19_Before(cands[a], cands[b], last_close, distance_first)
\* The support candidates of the 1h call that respect max_price = last close
C19_IntradaySupports ==
    WithinPrices(UniqueByPrice(RoundCandidates(_merge_candidates_by_atr(
                    IntradayCandidates(Tail_(series, INTRADAY_LOOKBACK_BARS), TRUE),
                    Some(IF IsNone(AtrForLevels(series, call.atr_value)) THEN 0
                         ELSE Val(AtrForLevels(series, call.atr_value))), TRUE))),
                 None, Some(LastBar.close))
\* The candidates of a side of the 1d call after the guardrail
C19_DailySide(is_support) ==
    UniqueByPrice(RoundCandidates(DailyCandidates(Tail_(series, DAILY_LOOKBACK_BARS),
        LastBar.close, AtrForLevels(series, call.atr_value), is_support)))
\* The support candidates of the 4h call
C19_FourHourSupports ==
    UniqueByPrice(RoundCandidates(_merge_candidates_by_atr(
        FourHourCandidates(Tail_(series, FOUR_HOUR_LOOKBACK_BARS), call.levels, TRUE),
        Some(IF IsNone(AtrForLevels(series, call.atr_value)) THEN 0
             ELSE Val(AtrForLevels(series, call.atr_value))), TRUE)))

\* C19: ranking selects the first N candidates: for 1h (distance-first) by
\* ascending distance to the last close, ties by the more recent time; for
\* 4h and 1d (structure-first) by ascending time, ties by the smaller
\* distance to the last close.
C19_RankingSelectsFirstN ==
    (call.op = "compute_support_resistance" /\ series # << >>)
    => /\ (Lower(call.interval) = "1h" /\ C19_IntradaySupports # << >>)
          => C19_FirstN(
                IntradayRankedSupports(
                    IntradayCandidates(Tail_(series, INTRADAY_LOOKBACK_BARS), TRUE),
                    call.levels, LastBar.close,
                    IF IsNone(AtrForLevels(series, call.atr_value)) THEN 0
                    ELSE Val(AtrForLevels(series, call.atr_value))),
                C19_IntradaySupports, LastBar.close, TRUE, call.levels)
       /\ Lower(call.interval) = "1d"
          => \A is_support \in BOOLEAN :
                C19_FirstN(
                    IF is_support
                    THEN DailyLevels(Tail_(series, DAILY_LOOKBACK_BARS), call.levels,
                            LastBar.close, AtrForLevels(series, call.atr_value)).supports
                    ELSE DailyLevels(Tail_(series, DAILY_LOOKBACK_BARS), call.levels,
                            LastBar.close, AtrForLevels(series, call.atr_value)).resistances,
                    C19_DailySide(is_support), LastBar.close, FALSE, call.levels)
       /\ Lower(call.interval) = "4h"
          => C19_FirstN(
                FourHourLevels(Tail_(series, FOUR_HOUR_LOOKBACK_BARS), call.levels,
                    LastBar.close, AtrForLevels(series, call.atr_value)).supports,
                C19_FourHourSupports, LastBar.close, FALSE, call.levels)

\* A 1h call with N = 1 and two unmerged support candidates below the last
\* close, the older one farther from it: the closer, newer one is returned.
C19_CloserPreferredToOlder ==
    /\ call.op = "compute_support_resistance"
    /\ Lower(call.interval) = "1h"
    /\ call.levels = 1
    /\ Len(C19_IntradaySupports) = 2
    /\ \E a, b \in 1..2 :
            /\ C19_IntradaySupports[a].ts < C19_IntradaySupports[b].ts
            /\ Abs(C19_IntradaySupports[a].price - LastBar.close)
                    > Abs(C19_IntradaySupports[b].price - LastBar.close)
            /\ Val(result).supports = <<C19_IntradaySupports[b].price>>

\* The resistance candidates of the 1h call before the price constraint, the
\* ranked supports, and the resistances that ranking returns
C20_IntradayTolerance ==
    IF IsNone(AtrForLevels(series, call.atr_value)) THEN 0
    ELSE Val(AtrForLevels(series, call.atr_value))
C20_IntradayResistanceCandidates ==
    UniqueByPrice(RoundCandidates(_merge_candidates_by_atr(
        IntradayCandidates(Tail_(series, INTRADAY_LOOKBACK_BARS), FALSE),
        Some(C20_IntradayTolerance), FALSE)))
C20_IntradaySupports ==
    IntradayRankedSupports(IntradayCandidates(Tail_(series, INTRADAY_LOOKBACK_BARS), TRUE),
                           call.levels, LastBar.close, C20_IntradayTolerance)
C20_IntradayResistances ==
    IntradayRankedResistances(IntradayCandidates(Tail_(series, INTRADAY_LOOKBACK_BARS), FALSE),
                              C20_IntradaySupports, call.levels, LastBar.close,
                              C20_IntradayTolerance)

\* C20: when the price constraint eliminates every candidate of a non-empty
\* candidate list, _rank_levels returns exactly one level, the candidate that
\* the ranking mode places first among all candidates (1h resistances:
\* min_price, distance-first).
C20_EliminatedFallsBackToBest ==
    (/\ call.op = "compute_support_resistance"
     /\ Lower(call.interval) = "1h"
     /\ series # << >>
     /\ call.levels >= 1
     /\ C20_IntradayResistanceCandidates # << >>
     /\ WithinPrices(C20_IntradayResistanceCandidates,
                     Some(MinResistancePrice(LastBar.close, C20_IntradaySupports)), None)
            = << >>)
    => /\ Len(C20_IntradayResistances) = 1
       /\ \E k \in 1..Len(C20_IntradayResistanceCandidates) :
            /\ C20_IntradayResistanceCandidates[k].price = C20_IntradayResistances[1]
            /\ \A j \in 1..Len(C20_IntradayResistanceCandidates) :
                    C19_Before(C20_IntradayResistanceCandidates[k],
                               C20_IntradayResistanceCandidates[j], LastBar.close, TRUE)

\* A candidate qualifies for the fill-in of a side: it respects the price
\* constraint of the side and is at least the tolerance away from every level
\* of the side
C21_Qualifies(c, side, tolerance, min_price, max_price) ==
    /\ IsNone(min_price) \/ c.price >= Val(min_price)
    /\ IsNone(max_price) \/ c.price <= Val(max_price)
    /\ \A k \in 1..Len(side) : Abs(c.price - side[k]) >= tolerance
\* A side that ends with fewer than N levels has no qualifying candidate left
C21_Filled(side, cands, tolerance, min_price, max_price) ==
    Len(side) < call.levels
    => \A k \in 1..Len(cands) : ~C21_Qualifies(cands[k], side, tolerance, min_price, max_price)
\* The levels an added level (one that the ranking did not return) leaves out
\* are older than it, too near a returned level, or outside the constraint
C21_NewestFirst(side, ranked, cands, tolerance, min_price, max_price) ==
    \A k \in 1..Len(cands) :
        \/ ~C21_Qualifies(cands[k], side, tolerance, min_price, max_price)
        \/ \A a \in 1..Len(cands) :
                (/\ cands[a].price \in Range(side)
                 /\ cands[a].price \notin Range(ranked)
                 /\ cands[k].price \notin Range(side))
                => cands[a].ts >= cands[k].ts
C21_Atr == AtrForLevels(series, call.atr_value)
C21_Clusters(interval_key) ==
    /\ call.op = "compute_support_resistance"
    /\ Lower(call.interval) = interval_key
    /\ series # << >>
    /\ ~IsNone(C21_Atr)
    /\ Val(C21_Atr) > 0
C21_Intraday == IntradayLevels(Tail_(series, INTRADAY_LOOKBACK_BARS), call.levels, LastBar.close, C21_Atr)
C21_IntradayCands(is_support) == IntradayCandidates(Tail_(series, INTRADAY_LOOKBACK_BARS), is_support)
C21_FourHour == FourHourLevels(Tail_(series, FOUR_HOUR_LOOKBACK_BARS), call.levels, LastBar.close, C21_Atr)
C21_FourHourCands(is_support) == FourHourCandidates(Tail_(series, FOUR_HOUR_LOOKBACK_BARS), call.levels, is_support)
C21_IntradayFilled ==
    C21_Clusters("1h")
    => /\ C21_Filled(C21_Intraday.supports, C21_IntradayCands(TRUE), Val(C21_Atr),
                     None, Some(LastBar.close))
       /\ C21_Filled(C21_Intraday.resistances, C21_IntradayCands(FALSE), Val(C21_Atr),
                     Some(MinResistancePrice(LastBar.close, C21_Intraday.supports)), None)
       /\ C21_NewestFirst(C21_Intraday.supports,
                          IntradayRankedSupports(C21_IntradayCands(TRUE), call.levels,
                                                 LastBar.close, Val(C21_Atr)),
                          C21_IntradayCands(TRUE), Val(C21_Atr), None, Some(LastBar.close))
C21_FourHourFilled ==
    C21_Clusters("4h")
    => /\ C21_Filled(C21_FourHour.supports, C21_FourHourCands(TRUE), Val(C21_Atr), None, None)
       /\ C21_Filled(C21_FourHour.resistances, C21_FourHourCands(FALSE), Val(C21_Atr),
                     Some(MinResistancePrice(LastBar.close, C21_FourHour.supports)), None)

\* C21: on every interval that clusters candidates (1h and 4h), a side that
\* ends with fewer than N levels has no candidate left that respects the price
\* constraint and is at least the tolerance away from every selected level.
C21_BackfillOnEveryClusteringInterval == C21_IntradayFilled /\ C21_FourHourFilled

\* Candidates i and j are in one cluster: from every candidate price from the
\* lower of the two up to the higher, a higher candidate price is less than
\* the tolerance away
C22_SameCluster(cands, i, j, tolerance) ==
    \A k \in 1..Len(cands) :
        (/\ cands[k].price >= Min2(cands[i].price, cands[j].price)
         /\ cands[k].price < Max2(cands[i].price, cands[j].price))
        => \E m \in 1..Len(cands) :
                /\ cands[m].price > cands[k].price
                /\ cands[m].price - cands[k].price < tolerance
                /\ cands[m].price <= Max2(cands[i].price, cands[j].price)
C22_Cluster(cands, i, tolerance) ==
    {j \in 1..Len(cands) : C22_SameCluster(cands, i, j, tolerance)}
\* Twice the distance of candidate j from the global midpoint
C22_Far2(cands, j) ==
    Abs(2 * cands[j].price - SetMin(Range(Prices(cands))) - SetMax(Range(Prices(cands))))
\* The members of the cluster that the criterion of the side prefers: the
\* farthest from the global midpoint (supports) or the highest (resistances)
C22_Extreme(cands, cluster, is_support) ==
    IF is_support
    THEN {j \in cluster : \A m \in cluster : C22_Far2(cands, j) >= C22_Far2(cands, m)}
    ELSE {j \in cluster : \A m \in cluster : cands[j].price >= cands[m].price}
\* Of two prices equally far from the midpoint, the lower
C22_LowerExtreme(cands, cluster, is_support) ==
    {j \in C22_Extreme(cands, cluster, is_support) :
        \A m \in C22_Extreme(cands, cluster, is_support) : cands[j].price <= cands[m].price}
C22_Newest(cands, members) ==
    {j \in members : \A m \in members : cands[j].ts >= cands[m].ts}
\* Every cluster has exactly one representative, and it is one of `preferred`
C22_OnePerCluster(cands, reps, tolerance, is_support, lower) ==
    \A i \in 1..Len(cands) :
        /\ Cardinality({k \in 1..Len(reps) :
                \E j \in C22_Cluster(cands, i, tolerance) : reps[k] = cands[j]}) = 1
        /\ \E k \in 1..Len(reps) :
                \E j \in C22_Newest(cands,
                            IF lower
                            THEN C22_LowerExtreme(cands, C22_Cluster(cands, i, tolerance),
                                                  is_support)
                            ELSE C22_Extreme(cands, C22_Cluster(cands, i, tolerance),
                                             is_support)) :
                    reps[k] = cands[j]
\* The candidate lists that the 1h and the 4h algorithm merge
C22_Merged(interval_key, is_support) ==
    IF interval_key = "1h" THEN C21_IntradayCands(is_support) ELSE C21_FourHourCands(is_support)
C22_Representatives(interval_key, is_support, lower) ==
    C21_Clusters(interval_key)
    => C22_OnePerCluster(C22_Merged(interval_key, is_support),
                         _merge_candidates_by_atr(C22_Merged(interval_key, is_support),
                                                  C21_Atr, is_support),
                         Val(C21_Atr), is_support, lower)

C30_Merge(cands, reps, tolerance) ==
    /\ \A k \in 1..Len(reps) : \E j \in 1..Len(cands) : reps[k] = cands[j]
    /\ \A i \in 1..Len(cands) :
            Cardinality({k \in 1..Len(reps) :
                \E j \in 1..Len(cands) :
                    cands[j] = reps[k] /\ C22_SameCluster(cands, i, j, tolerance)}) = 1
    /\ \A k1, k2 \in 1..Len(reps) :
            k1 # k2 => Abs(reps[k1].price - reps[k2].price) >= tolerance
\* The levels the fill-in added to the ranked ones are at least the tolerance
\* away from every other level of the side
C30_Fill(ranked, filled, tolerance) ==
    \A p, q \in 1..Len(filled) :
        (p # q /\ filled[p] \notin Range(ranked)) => Abs(filled[p] - filled[q]) >= tolerance
C30_RankedSupports ==
    IntradayRankedSupports(C21_IntradayCands(TRUE), call.levels, LastBar.close, Val(C21_Atr))
C30_RankedResistances ==
    IntradayRankedResistances(C21_IntradayCands(FALSE), C30_RankedSupports, call.levels,
                              LastBar.close, Val(C21_Atr))

\* C30: with tolerance T > 0 every representative of _merge_candidates_by_atr
\* is an input candidate, every candidate is chained by steps below T to the
\* cluster of exactly one representative, any two representatives are at least
\* T apart, and every level that _fill_levels_from_candidates adds is at least
\* T away from every other level of its side.
C30_MergeAndFillKeepSpacing ==
    /\ \A interval_key \in {"1h", "4h"}, is_support \in BOOLEAN :
            C21_Clusters(interval_key)
            => C30_Merge(C22_Merged(interval_key, is_support),
                         _merge_candidates_by_atr(C22_Merged(interval_key, is_support),
                                                  C21_Atr, is_support),
                         Val(C21_Atr))
    /\ C21_Clusters("1h")
       => /\ C30_Fill(C30_RankedSupports, C21_Intraday.supports, Val(C21_Atr))
          /\ C30_Fill(C30_RankedResistances, C21_Intraday.resistances, Val(C21_Atr))

\* Resistance candidates were merged into fewer representatives, and the
\* fill-in then added a resistance to the ranked ones
C30_MergedAndFilled ==
    /\ C21_Clusters("1h")
    /\ Len(_merge_candidates_by_atr(C21_IntradayCands(FALSE), C21_Atr, FALSE))
            < Len(C21_IntradayCands(FALSE))
    /\ Len(C21_Intraday.resistances) > Len(C30_RankedResistances)
    /\ Val(result).resistances = C21_Intraday.resistances

\* A call with an interval that is not 1h, 4h or 1d, on a Series with bars
C25_OtherInterval ==
    /\ call.op = "compute_support_resistance"
    /\ Lower(call.interval) \notin {"1h", "4h", "1d"}
    /\ series # << >>
C25_Lows == [i \in 1..Len(series) |-> series[i].low]
C25_Highs == [i \in 1..Len(series) |-> series[i].high]
\* The k-th lowest low and the k-th highest high, each bar counting once
C25_Lowest(k) ==
    CHOOSE v \in Range(C25_Lows) :
        /\ Cardinality({i \in 1..Len(series) : series[i].low < v}) < k
        /\ Cardinality({i \in 1..Len(series) : series[i].low <= v}) >= k
C25_Highest(k) ==
    CHOOSE v \in Range(C25_Highs) :
        /\ Cardinality({i \in 1..Len(series) : series[i].high > v}) < k
        /\ Cardinality({i \in 1..Len(series) : series[i].high >= v}) >= k

C26_Fields ==
    {"pair", "interval", "period", "trend", "support_levels", "resistance_levels", "rsi",
     "atr", "average_volatility", "sma", "ema", "generated_at", "schema_version"}
C26_Returned == call.op = "analyze_dataframe" /\ outcome = "returned"

C23_WindowSize ==
    IF Lower(call.interval) = "1h" THEN 120
    ELSE IF Lower(call.interval) \in {"4h", "1d"} THEN 60
    ELSE Len(series)
C23_Window == Max2(1, Len(series) - C23_WindowSize + 1)..Len(series)
\* Bar i dips below the EMA and closes above it, the closes of bars i to
\* min(i + 2, last) are at or above their EMA, and the close two bars later
\* (or one, near the end) is above the close of bar i
C24_SupportBounceAt(ema, i) ==
    /\ ~IsNone(ema[i])
    /\ series[i].low * EmaScale < Val(ema[i])
    /\ Val(ema[i]) < series[i].close * EmaScale
    /\ \A j \in i..Min2(i + 2, Len(series)) : series[j].close * EmaScale >= Val(ema[j])
    /\ i + 2 <= Len(series) => series[i + 2].close > series[i].close
    /\ i + 1 = Len(series) => series[i + 1].close > series[i].close
\* The mirror condition
C24_ResistanceRejectAt(ema, i) ==
    /\ ~IsNone(ema[i])
    /\ series[i].high * EmaScale > Val(ema[i])
    /\ Val(ema[i]) > series[i].close * EmaScale
    /\ \A j \in i..Min2(i + 2, Len(series)) : series[j].close * EmaScale <= Val(ema[j])
    /\ i + 2 <= Len(series) => series[i + 2].close < series[i].close
    /\ i + 1 = Len(series) => series[i + 1].close < series[i].close
C23_Bounces(ema) == {i \in C23_Window : C24_SupportBounceAt(ema, i)}
C23_Rejects(ema) == {i \in C23_Window : C24_ResistanceRejectAt(ema, i)}
C23_Returned == call.op = "analyze_dataframe" /\ outcome = "returned"
\* The entry reports the latest bar of bounces when no bar of rejects is
\* later, the latest bar of rejects when it is later than every bar of
\* bounces, and "none" with no bars-ago value when there is neither
C23_Selected(entry, bounces, rejects) ==
    /\ entry.reaction \in {"support_bounce", "resistance_reject", "none"}
    /\ entry.reaction = "none" <=> bounces = {} /\ rejects = {}
    /\ entry.reaction = "none" => IsNone(entry.reaction_bars_ago)
    /\ entry.reaction = "support_bounce"
       => /\ bounces # {}
          /\ entry.reaction_bars_ago = Some(Len(series) - SetMax(bounces))
          /\ \A j \in rejects : Len(series) - j >= Len(series) - SetMax(bounces)
    /\ entry.reaction = "resistance_reject"
       => /\ rejects # {}
          /\ entry.reaction_bars_ago = Some(Len(series) - SetMax(rejects))
          /\ \A j \in bounces : Len(series) - j > Len(series) - SetMax(rejects)
    /\ bounces # {} /\ rejects # {}
       => entry.reaction = (IF Len(series) - SetMax(bounces) <= Len(series) - SetMax(rejects)
                            THEN "support_bounce" ELSE "resistance_reject")
    /\ entry.reaction # "none"
       => /\ 0 <= Val(entry.reaction_bars_ago)
          /\ Val(entry.reaction_bars_ago) < C23_WindowSize
C23_SelectedFor(entry, ema) == C23_Selected(entry, C23_Bounces(ema), C23_Rejects(ema))

\* C23: per EMA period, within the trailing reaction window the reported event
\* is the most recent bar of its pattern; of a bounce and a rejection the one
\* fewer bars ago is reported, a tie going to support_bounce; the label is
\* "none" with no bars-ago value iff no bar of the window shows either
\* pattern; a reported bars-ago value is at least 0 and below the window size.
C23_MostRecentReactionReported ==
    C23_Returned
    => \A period \in EMA_PERIODS :
          C23_SelectedFor(Val(result).ema[period], ewm(Closes(series), period))

\* On the hourly series with a bounce at bar 31 and a rejection at bar 101,
\* both in the window of 120 bars, the rejection (9 bars ago) is reported for
\* the EMA of period 25; the EMA of period 200 has no value and reports "none"
C23_LaterRejectionReported ==
    /\ C23_Returned
    /\ series = EmaBounceRejectSeries
    /\ call.interval = "1H"
    /\ 31 \in C23_Bounces(ewm(Closes(series), 25))
    /\ 101 \in C23_Rejects(ewm(Closes(series), 25))
    /\ Val(result).ema[25].reaction = "resistance_reject"
    /\ Val(result).ema[25].reaction_bars_ago = Some(9)
    /\ Val(result).ema[200].reaction = "none"

\* The bars, counted from 1 in the Series, at which the scan of the reaction
\* window detects each pattern for an EMA series
C24_WindowDf == Tail_(series, C23_WindowSize)
C24_DetectedBounces(ema) ==
    {i \in C23_Window :
        i - Len(series) + Len(C24_WindowDf)
            \in SupportIdx(C24_WindowDf, Closes(C24_WindowDf), Tail_(ema, Len(C24_WindowDf)))}
C24_DetectedRejects(ema) ==
    {i \in C23_Window :
        i - Len(series) + Len(C24_WindowDf)
            \in ResistanceIdx(C24_WindowDf, Closes(C24_WindowDf),
                              Tail_(ema, Len(C24_WindowDf)))}
C24_DipOnFinalBar(ema) ==
    /\ series # << >>
    /\ ~IsNone(ema[Len(series)])
    /\ LastBar.low * EmaScale < Val(ema[Len(series)])
    /\ Val(ema[Len(series)]) < LastBar.close * EmaScale
C24_PatternFor(entry, ema) ==
    /\ C24_DetectedBounces(ema) = C23_Bounces(ema)
    /\ C24_DetectedRejects(ema) = C23_Rejects(ema)
    /\ C24_DipOnFinalBar(ema)
       => entry.reaction = "support_bounce" /\ entry.reaction_bars_ago = Some(0)

\* C24: a support_bounce is detected at bar i iff low[i] < ema[i] < close[i],
\* the closes of bars i to min(i + 2, last) are at or above their EMA, and
\* close[i + 2] (or close[i + 1] when only one bar follows, or nothing when i is
\* the last bar) is above close[i]; resistance_reject is the mirror condition;
\* so a dip below the EMA that closes above it on the final bar is reported as
\* support_bounce with reaction_bars_ago 0.
C24_PatternAndFinalBarDip ==
    C23_Returned
    => \A period \in EMA_PERIODS :
          C24_PatternFor(Val(result).ema[period], ewm(Closes(series), period))

\* The 220-bar series whose final bar dips below every EMA and closes above
\* it: support_bounce, 0 bars ago, for each period
C24_FinalBarDipReported ==
    /\ C23_Returned
    /\ series = EmaDipSeries
    /\ \A period \in EMA_PERIODS :
          /\ C24_DipOnFinalBar(ewm(Closes(series), period))
          /\ Val(result).ema[period].reaction = "support_bounce"
          /\ Val(result).ema[period].reaction_bars_ago = Some(0)

\* What a call of the engine returns on the Series of the caller
C27_Value(c, df) ==
    IF c.op = "compute_support_resistance"
    THEN Some(compute_support_resistance(df, c.interval, c.levels, c.atr_value))
    ELSE Some(Indicator(c.op, df))
C27_SameInputs(c, d) ==
    /\ c.op = d.op
    /\ c.op # "none"
    /\ c.op = "compute_support_resistance"
       => /\ c.interval = d.interval
          /\ c.levels = d.levels
          /\ c.atr_value = d.atr_value
C27_CallStep ==
    /\ call' # call
    /\ call'.op # "none"
    => /\ series' = series
       /\ result' = C27_Value(call', series)
       /\ C27_SameInputs(call, call') => result' = result /\ outcome' = outcome

C28_Window == Tail_(series, 120)
C28_Sessions == {SessionDate(C28_Window[i].ts) : i \in 1..Len(C28_Window)}
C28_BarsOf(d) == {i \in 1..Len(C28_Window) : SessionDate(C28_Window[i].ts) = d}
C28_HighBar(d) ==
    CHOOSE i \in C28_BarsOf(d) :
        /\ \A j \in C28_BarsOf(d) : C28_Window[j].high <= C28_Window[i].high
        /\ \A j \in C28_BarsOf(d) : j < i => C28_Window[j].high < C28_Window[i].high
C28_LowBar(d) ==
    CHOOSE i \in C28_BarsOf(d) :
        /\ \A j \in C28_BarsOf(d) : C28_Window[j].low >= C28_Window[i].low
        /\ \A j \in C28_BarsOf(d) : j < i => C28_Window[j].low > C28_Window[i].low
\* At least 5 bars follow bar i in the window, and the next 5 stay strictly
\* inside the extreme of bar i
C28_HighConfirmed(i) ==
    /\ i + 5 <= Len(C28_Window)
    /\ \A j \in (i + 1)..(i + 5) : C28_Window[j].high < C28_Window[i].high
C28_LowConfirmed(i) ==
    /\ i + 5 <= Len(C28_Window)
    /\ \A j \in (i + 1)..(i + 5) : C28_Window[j].low > C28_Window[i].low
C28_Resistances ==
    {[price |-> C28_Window[C28_HighBar(d)].high, ts |-> C28_Window[C28_HighBar(d)].ts] :
        d \in {e \in C28_Sessions : C28_HighConfirmed(C28_HighBar(e))}}
C28_Supports ==
    {[price |-> C28_Window[C28_LowBar(d)].low, ts |-> C28_Window[C28_LowBar(d)].ts] :
        d \in {e \in C28_Sessions : C28_LowConfirmed(C28_LowBar(e))}}
C28_Intraday ==
    /\ call.op = "compute_support_resistance"
    /\ Lower(call.interval) = "1h"
    /\ series # << >>

C29_Rising == \E i \in 2..Len(series) : series[i].close > series[i - 1].close
C29_Falling == \E i \in 2..Len(series) : series[i].close < series[i - 1].close

\* C29: compute_rsi with period 14 derives its value from the price changes
\* only when there are at least 15 closes; with 2 to 14 closes it returns 50.0
\* whatever the prices are.
C29_FiftyBelowFifteenCloses ==
    C23_Returned
    => /\ Len(series) \in 2..14 => Val(Val(result).rsi).value = 5000
       /\ Len(series) >= 2 /\ Val(Val(result).rsi).value # 5000 => Len(series) >= 15
       /\ Len(series) < 2 => IsNone(Val(result).rsi)

\* 14 closes that rise and never fall: the RSI is 50.0
C29_FourteenRisingCloses ==
    /\ C23_Returned
    /\ Len(series) = 14
    /\ C29_Rising
    /\ ~C29_Falling
    /\ Val(Val(result).rsi).value = 5000
====
